---- MODULE Spec2Model ----
(***************************************************************************)
(* Graph execution engine of Assets (src/src/window.py, src/src/node.py).  *)
(* The canvas holds a node list and a connection list; execute_graph runs  *)
(* the graph level by level on a thread pool.                              *)
(***************************************************************************)
EXTENDS Integers, Sequences, FiniteSets, TLC

\* ------------------------------------------------------------------ bounds
\* Graphs handed to the two structural analyses (SpecGraph).
MaxNodes == 3
MaxConns == 3
\* Graphs that are run on the thread pool (Spec).
RunNodes == 3
RunConns == 2
\* Connections of the graphs whose values are followed (SpecData).
DataConns == 3
\* Modulus of the fingerprint hash of the model (the program's is 64 bits wide).
HashMod == 251

\* ------------------------------------------------------------------ helpers
Range(s) == {s[i] : i \in 1..Len(s)}

Max(S) == CHOOSE m \in S : \A k \in S : k <= m

SeqsUpTo(S, n) == UNION {[1..k -> S] : k \in 0..n}

\* ------------------------------------------------------------------ values
\* Python values a node passes along: None, an int, a dict carrying a reserved
\* key, a list built by fan-in, a tuple.  One record shape for all of them.
NoneV == [tag |-> "None", items |-> <<>>, n |-> 0]
IntV(i) == [tag |-> "int", items |-> <<>>, n |-> i]
DictV(key) == [tag |-> key, items |-> <<>>, n |-> 0]
ListV(s) == [tag |-> "list", items |-> s, n |-> 0]
TupleV(s) == [tag |-> "tuple", items |-> s, n |-> 0]

\* Script texts of the nodes of the model.
S_Empty == ""
S_Blank == "  "
S_Plot == "return {'_plot': 1}"
S_Div0 == "return 1/0"
S_Exit == "raise SystemExit"
S_Ret5 == "return 5"
S_Ret7 == "return 7"
S_Ret10 == "return (10,)"
S_RetDouble == "return (inputs[0] * 2,)"
S_Out10 == "outputs = (10,)"
S_OutDouble == "outputs = (inputs[0] * 2,)"
S_RetFirst == "return inputs[0]"
S_Syntax == "return ("

\* ------------------------------------------------------------------ state
VARIABLES
  \* AssetsCanvas
  nodes,          \* self.nodes: list of Node objects (their identities)
  connections,    \* self.connections: list of (source, out_port, target, in_port)
  \* Node objects, by identity
  title, num_inputs, num_outputs, code,
  cache_valid, last_inputs, last_outputs,
  \* execute_graph, the background thread of on_run_clicked
  pc,             \* where the background thread is
  execution_order,\* result of _topological_sort
  levels,         \* result of _group_by_execution_level
  level_idx,      \* index of the level being run (0-based)
  node_results,   \* dict node -> outputs
  results_lock,   \* threading.Lock(): 0 when free, else the node whose worker holds it
  stdout,         \* sys.stdout: "real" or "captured"
  level_results,  \* list of (node, outputs) of the current level
  pending,        \* how the with-block is being left: "none", "return", "raise"
  ret,            \* value execute_graph returned: "none", "True", "False"
  \* ThreadPoolExecutor of the current level
  task,           \* per node: "none", "queued", "collected", "executed", "returning", "finished"
  inputs,         \* worker local: inputs collected for the node
  outputs,        \* worker local: outputs of _execute_node_code
  result,         \* what the future of the node holds
  completed,      \* futures in the order they finished
  snapshot,       \* futures already finished when as_completed was called
  yielded,        \* futures as_completed has handed to the loop, in order
  \* what the run handed to its collaborators
  printed,        \* error reports printed by the run
  delivered,      \* add_plot/add_table/add_data calls queued by the run
  \* history of the run
  grouper_calls,  \* number of calls of _group_by_execution_level
  scripts_run,    \* nodes whose script was evaluated
  cache_start,    \* the cache entries when the run began
  \* AssetsCanvas, interaction state
  focused_node_index,     \* index in self.nodes of the focused node, -1 for none
  clipboard_node,         \* the Node copied, 0 for None
  creating_connection,    \* a connection is being dragged from an output port
  connection_start_node,  \* its source node, 0 for None
  connection_start_port,  \* its source port
  selected_connection,    \* the connection selected, <<>> for None
  context_menu_node,      \* the node the menu or the dialogs act on, 0 for None
  pos,            \* per node: the place on the canvas where it lies
  created,        \* number of Node objects created so far
  last_op,        \* the last handler of the editor that ran, and how it ended
  \* MainWindow and the file system
  current_file,   \* self.current_file: the path of the graph's file, "" for None
  disk,           \* the contents of the .assets file of the default directory
  \* history of the node
  call_log        \* per node: the last two calls of _execute_node_code, newest last

canvasVars == <<nodes, connections, title, num_inputs, num_outputs, code>>
cacheVars == <<cache_valid, last_inputs, last_outputs>>
frameVars == <<pc, execution_order, levels, level_idx, node_results, results_lock, stdout,
               level_results, pending, ret>>
poolVars == <<task, inputs, outputs, result, completed, snapshot, yielded>>
outVars == <<printed, delivered>>
histVars == <<grouper_calls, scripts_run, cache_start, call_log>>
editVars == <<focused_node_index, clipboard_node, creating_connection,
              connection_start_node, connection_start_port, selected_connection,
              context_menu_node, pos, created, last_op, current_file, disk>>
vars == <<canvasVars, cacheVars, frameVars, poolVars, outVars, histVars, editVars>>

NodeIds == 1..(IF MaxNodes > RunNodes THEN MaxNodes ELSE RunNodes)

\* ------------------------------------------------------------------ analyses
\* A slip of VisitNeighbors: the in-degree is tested before it is decremented.
RECURSIVE VisitNeighbors_TestBefore(_, _, _)
VisitNeighbors_TestBefore(adj, in_degree, queue) ==
  IF adj = <<>> THEN [in_degree |-> in_degree, queue |-> queue]
  ELSE LET neighbor == Head(adj)
           d == in_degree[neighbor] - 1
       IN VisitNeighbors_TestBefore(Tail(adj), [in_degree EXCEPT ![neighbor] = d],
            IF in_degree[neighbor] = 0 THEN Append(queue, neighbor) ELSE queue)

\* _topological_sort, the inner for loop: decrement the in-degree of every
\* neighbour and enqueue those that reach zero.
RECURSIVE VisitNeighbors(_, _, _)
VisitNeighbors(adj, in_degree, queue) ==
  IF adj = <<>> THEN [in_degree |-> in_degree, queue |-> queue]
  ELSE LET neighbor == Head(adj)
           d == in_degree[neighbor] - 1
       IN VisitNeighbors(Tail(adj), [in_degree EXCEPT ![neighbor] = d],
                         IF d = 0 THEN Append(queue, neighbor) ELSE queue)

\* adjacency[node]: the targets of the connections leaving node, in list order.
Adjacency(conns, node) ==
  LET out == SelectSeq(conns, LAMBDA c : c[1] = node)
  IN [i \in 1..Len(out) |-> out[i][3]]

\* _topological_sort, the while loop (Kahn).
RECURSIVE KahnLoop(_, _, _, _)
KahnLoop(conns, queue, in_degree, res) ==
  IF queue = <<>> THEN res
  ELSE LET node == Head(queue)
           v == VisitNeighbors(Adjacency(conns, node), in_degree, Tail(queue))
       IN KahnLoop(conns, v.queue, v.in_degree, Append(res, node))

\* A slip of _topological_sort: the length test never reports a cycle.
_topological_sort_NoCycleCheck(ns, conns) ==
  LET in_degree == [n \in Range(ns) |->
                      Cardinality({i \in 1..Len(conns) : conns[i][3] = n})]
      queue == SelectSeq(ns, LAMBDA n : in_degree[n] = 0)
      res == KahnLoop(conns, queue, in_degree, <<>>)
  IN IF Len(res) > Len(ns) THEN [none |-> TRUE, order |-> <<>>]
     ELSE [none |-> FALSE, order |-> res]

\* _topological_sort: [none |-> TRUE] stands for the None it returns on a cycle.
_topological_sort(ns, conns) ==
  LET in_degree == [n \in Range(ns) |->
                      Cardinality({i \in 1..Len(conns) : conns[i][3] = n})]
      queue == SelectSeq(ns, LAMBDA n : in_degree[n] = 0)
      res == KahnLoop(conns, queue, in_degree, <<>>)
  IN IF Len(res) # Len(ns) THEN [none |-> TRUE, order |-> <<>>]
     ELSE [none |-> FALSE, order |-> res]

\* predecessors[node]: the sources of the connections entering node, in list order.
Predecessors(conns, node) ==
  LET inc == SelectSeq(conns, LAMBDA c : c[3] = node)
  IN [i \in 1..Len(inc) |-> inc[i][1]]

\* A slip of RelaxPass: the depth of a node is the largest depth among its
\* predecessors, without the + 1.
RECURSIVE RelaxPass_NoIncrement(_, _, _, _, _)
RelaxPass_NoIncrement(ns, conns, i, depth, changed) ==
  IF i > Len(ns) THEN [depth |-> depth, changed |-> changed]
  ELSE LET node == ns[i]
           preds == Predecessors(conns, node)
       IN IF preds # <<>>
          THEN LET new_depth == Max({depth[p] : p \in Range(preds)})
               IN IF new_depth > depth[node]
                  THEN RelaxPass_NoIncrement(ns, conns, i + 1,
                                 [depth EXCEPT ![node] = new_depth], TRUE)
                  ELSE RelaxPass_NoIncrement(ns, conns, i + 1, depth, changed)
          ELSE RelaxPass_NoIncrement(ns, conns, i + 1, depth, changed)

\* _group_by_execution_level: one pass of the for loop over self.nodes, from
\* position i on; depth is updated in place.
RECURSIVE RelaxPass(_, _, _, _, _)
RelaxPass(ns, conns, i, depth, changed) ==
  IF i > Len(ns) THEN [depth |-> depth, changed |-> changed]
  ELSE LET node == ns[i]
           preds == Predecessors(conns, node)
       IN IF preds # <<>>
          THEN LET max_pred_depth == Max({depth[p] : p \in Range(preds)})
                   new_depth == max_pred_depth + 1
               IN IF new_depth > depth[node]
                  THEN RelaxPass(ns, conns, i + 1,
                                 [depth EXCEPT ![node] = new_depth], TRUE)
                  ELSE RelaxPass(ns, conns, i + 1, depth, changed)
          ELSE RelaxPass(ns, conns, i + 1, depth, changed)

\* A slip of RelaxLoop: one pass over the nodes, not repeated until no change.
RelaxLoop_OnePass(ns, conns, depth) == RelaxPass(ns, conns, 1, depth, FALSE).depth

\* _group_by_execution_level: the while changed loop.
RECURSIVE RelaxLoop(_, _, _)
RelaxLoop(ns, conns, depth) ==
  LET p == RelaxPass(ns, conns, 1, depth, FALSE)
  IN IF p.changed THEN RelaxLoop(ns, conns, p.depth) ELSE p.depth

\* The depth table _group_by_execution_level computes.
Depth(ns, conns) == RelaxLoop(ns, conns, [n \in Range(ns) |-> 0])

\* A slip of _group_by_execution_level: one list more than there are depths.
_group_by_execution_level_ExtraLevel(ns, conns) ==
  LET depth == Depth(ns, conns)
      max_depth == IF ns = <<>> THEN 0 ELSE Max({depth[n] : n \in Range(ns)})
  IN [d \in 1..(max_depth + 2) |-> SelectSeq(ns, LAMBDA n : depth[n] = d - 1)]

\* _group_by_execution_level: the nodes grouped by depth, in self.nodes order.
_group_by_execution_level(ns, conns) ==
  LET depth == Depth(ns, conns)
      max_depth == IF ns = <<>> THEN 0 ELSE Max({depth[n] : n \in Range(ns)})
  IN [d \in 1..(max_depth + 1) |-> SelectSeq(ns, LAMBDA n : depth[n] = d - 1)]

\* ------------------------------------------------------------------ Node
\* repr(value), as a sequence of tokens.
RECURSIVE Repr(_)
RECURSIVE ReprItems(_)
Repr(v) ==
  IF v.tag = "None" THEN <<1>>
  ELSE IF v.tag = "int" THEN <<11, v.n>>
  ELSE IF v.tag = "list" THEN <<2>> \o ReprItems(v.items) \o <<3>>
  ELSE IF v.tag = "tuple" THEN <<4>> \o ReprItems(v.items) \o <<5>>
  ELSE IF v.tag = "_plot" THEN <<6, 7>>
  ELSE IF v.tag = "_table" THEN <<6, 8>>
  ELSE IF v.tag = "_data" THEN <<6, 9>>
  ELSE <<6, 10>>
ReprItems(s) == IF s = <<>> THEN <<>> ELSE Repr(Head(s)) \o <<0>> \o ReprItems(Tail(s))

\* hash(str): a content hash of the token sequence.
RECURSIVE Hash(_, _)
Hash(s, h) == IF s = <<>> THEN h ELSE Hash(Tail(s), (h * 31 + Head(s)) % HashMod)

\* Node._hash_inputs: hash(repr(inputs)) of the input tuple.
_hash_inputs(ins) == Hash(<<4>> \o ReprItems(ins) \o <<5>>, 7)

\* The None that _last_inputs and _last_outputs hold before the first set_cache.
NoHash == [none |-> TRUE, h |-> 0]
SomeHash(h) == [none |-> FALSE, h |-> h]

\* A slip of get_cached_result: the entry is never taken for a match.
get_cached_result_Miss(n, ins) == [result |-> <<>>, from_cache |-> FALSE]

\* A slip of get_cached_result: a valid entry is taken whatever the inputs.
get_cached_result_AnyInputs(n, ins) ==
  IF ~cache_valid[n] THEN [result |-> <<>>, from_cache |-> FALSE]
  ELSE [result |-> last_outputs[n], from_cache |-> TRUE]

\* Node.get_cached_result: (result, from_cache).
get_cached_result(n, ins) ==
  IF ~cache_valid[n] THEN [result |-> <<>>, from_cache |-> FALSE]
  ELSE IF SomeHash(_hash_inputs(ins)) # last_inputs[n]
       THEN [result |-> <<>>, from_cache |-> FALSE]
       ELSE [result |-> last_outputs[n], from_cache |-> TRUE]

\* ------------------------------------------------------------------ script execution
\* inputs[0] * 2 in a script: the value or the exception.
Doubled(ins) ==
  IF Len(ins) = 0 THEN [kind |-> "Exception", value |-> NoneV, text |-> "IndexError"]
  ELSE LET v == ins[1] IN
    IF v.tag = "int" THEN [kind |-> "ok", value |-> IntV(2 * v.n), text |-> ""]
    ELSE IF v.tag = "list"
      THEN [kind |-> "ok", value |-> ListV(v.items \o v.items), text |-> ""]
    ELSE IF v.tag = "tuple"
      THEN [kind |-> "ok", value |-> TupleV(v.items \o v.items), text |-> ""]
    ELSE [kind |-> "Exception", value |-> NoneV, text |-> "TypeError"]

\* exec of the script text as the body of __node_function(inputs), then the
\* call: the value the function returns (None when the body has no return) or
\* the exception it raises.
RunScript(text, ins) ==
  IF text = S_Plot THEN [kind |-> "ok", value |-> DictV("_plot"), text |-> ""]
  ELSE IF text = S_Ret5 THEN [kind |-> "ok", value |-> IntV(5), text |-> ""]
  ELSE IF text = S_Ret7 THEN [kind |-> "ok", value |-> IntV(7), text |-> ""]
  ELSE IF text = S_Ret10
    THEN [kind |-> "ok", value |-> TupleV(<<IntV(10)>>), text |-> ""]
  ELSE IF text = S_RetDouble
    THEN LET d == Doubled(ins) IN
         IF d.kind = "ok" THEN [d EXCEPT !.value = TupleV(<<d.value>>)] ELSE d
  ELSE IF text = S_Out10 THEN [kind |-> "ok", value |-> NoneV, text |-> ""]
  ELSE IF text = S_OutDouble
    THEN LET d == Doubled(ins) IN
         IF d.kind = "ok" THEN [d EXCEPT !.value = NoneV] ELSE d
  ELSE IF text = S_RetFirst
    THEN IF Len(ins) = 0
           THEN [kind |-> "Exception", value |-> NoneV, text |-> "IndexError"]
           ELSE [kind |-> "ok", value |-> ins[1], text |-> ""]
  ELSE IF text = S_Syntax
    THEN [kind |-> "Exception", value |-> NoneV, text |-> "SyntaxError"]
  ELSE IF text = S_Div0
    THEN [kind |-> "Exception", value |-> NoneV, text |-> "division by zero"]
  ELSE [kind |-> "BaseException", value |-> NoneV, text |-> "SystemExit"]

\* A slip of Strip: the text is handed back as it is.
Strip_Id(text) == text

\* str.strip() of a script text.
Strip(text) == IF text = S_Blank THEN "" ELSE text

\* A slip of _execute_node_code: the value returned is wrapped in a tuple even
\* when it is one already.
_execute_node_code_AlwaysWrap(n, ins) ==
  IF code[n] = "" \/ Strip(code[n]) = ""
    THEN [kind |-> "ok", outputs |-> ins, text |-> "", ran |-> FALSE,
          cached |-> FALSE, hit |-> FALSE]
  ELSE LET c == get_cached_result(n, ins) IN
    IF c.from_cache
      THEN [kind |-> "ok", outputs |-> c.result, text |-> "", ran |-> FALSE,
            cached |-> FALSE, hit |-> TRUE]
    ELSE LET r == RunScript(code[n], ins) IN
      IF r.kind = "ok"
        THEN [kind |-> "ok", outputs |-> <<r.value>>,
              text |-> "", ran |-> TRUE, cached |-> TRUE, hit |-> FALSE]
        ELSE [kind |-> r.kind, outputs |-> <<>>, text |-> r.text, ran |-> TRUE,
              cached |-> FALSE, hit |-> FALSE]

\* A slip of _execute_node_code: a list the script returns is taken for the
\* output tuple, as a tuple is.
_execute_node_code_UnwrapList(n, ins) ==
  IF code[n] = "" \/ Strip(code[n]) = ""
    THEN [kind |-> "ok", outputs |-> ins, text |-> "", ran |-> FALSE,
          cached |-> FALSE, hit |-> FALSE]
  ELSE LET c == get_cached_result(n, ins) IN
    IF c.from_cache
      THEN [kind |-> "ok", outputs |-> c.result, text |-> "", ran |-> FALSE,
            cached |-> FALSE, hit |-> TRUE]
    ELSE LET r == RunScript(code[n], ins) IN
      IF r.kind = "ok"
        THEN [kind |-> "ok",
              outputs |-> IF r.value.tag \in {"tuple", "list"} THEN r.value.items
                          ELSE <<r.value>>,
              text |-> "", ran |-> TRUE, cached |-> TRUE, hit |-> FALSE]
        ELSE [kind |-> r.kind, outputs |-> <<>>, text |-> r.text, ran |-> TRUE,
              cached |-> FALSE, hit |-> FALSE]

\* A slip of _execute_node_code: set_cache is called when the script raised
\* as well.
_execute_node_code_CacheOnFailure(n, ins) ==
  IF code[n] = "" \/ Strip(code[n]) = ""
    THEN [kind |-> "ok", outputs |-> ins, text |-> "", ran |-> FALSE,
          cached |-> FALSE, hit |-> FALSE]
  ELSE LET c == get_cached_result(n, ins) IN
    IF c.from_cache
      THEN [kind |-> "ok", outputs |-> c.result, text |-> "", ran |-> FALSE,
            cached |-> FALSE, hit |-> TRUE]
    ELSE LET r == RunScript(code[n], ins) IN
      IF r.kind = "ok"
        THEN [kind |-> "ok",
              outputs |-> IF r.value.tag = "tuple" THEN r.value.items
                          ELSE <<r.value>>,
              text |-> "", ran |-> TRUE, cached |-> TRUE, hit |-> FALSE]
        ELSE [kind |-> r.kind, outputs |-> <<>>, text |-> r.text, ran |-> TRUE,
              cached |-> TRUE, hit |-> FALSE]

\* _execute_node_code: the outputs or the exception, whether the script was
\* evaluated (ran), whether set_cache was called (cached) and whether the
\* outputs came from the cache (hit).
_execute_node_code(n, ins) ==
  IF code[n] = "" \/ Strip(code[n]) = ""
    THEN [kind |-> "ok", outputs |-> ins, text |-> "", ran |-> FALSE,
          cached |-> FALSE, hit |-> FALSE]
  ELSE LET c == get_cached_result(n, ins) IN
    IF c.from_cache
      THEN [kind |-> "ok", outputs |-> c.result, text |-> "", ran |-> FALSE,
            cached |-> FALSE, hit |-> TRUE]
    ELSE LET r == RunScript(code[n], ins) IN
      IF r.kind = "ok"
        THEN [kind |-> "ok",
              outputs |-> IF r.value.tag = "tuple" THEN r.value.items
                          ELSE <<r.value>>,
              text |-> "", ran |-> TRUE, cached |-> TRUE, hit |-> FALSE]
        ELSE [kind |-> r.kind, outputs |-> <<>>, text |-> r.text, ran |-> TRUE,
              cached |-> FALSE, hit |-> FALSE]

\* The record of one call of _execute_node_code on node n: its inputs, the
\* script text at the call, whether the script was evaluated, whether the
\* outputs came from the cache, and the outputs or the exception.
Logged(log, n, ins, r) ==
  LET rec == [inputs |-> ins, code |-> code[n], ran |-> r.ran, hit |-> r.hit,
              kind |-> r.kind, outputs |-> r.outputs, reassigned |-> FALSE]
      old == log[n]
  IN [log EXCEPT ![n] = IF old = <<>> THEN <<rec>> ELSE <<old[Len(old)], rec>>]

\* The record of a call as Logged makes it, the last three calls being kept.
LoggedLast3(log, n, ins, r) ==
  LET rec == [inputs |-> ins, code |-> code[n], ran |-> r.ran, hit |-> r.hit,
              kind |-> r.kind, outputs |-> r.outputs, reassigned |-> FALSE]
      old == log[n]
  IN [log EXCEPT ![n] = IF Len(old) < 3 THEN Append(old, rec)
                        ELSE Append(Tail(old), rec)]

\* A slip of CollectLoop: a value landing on a port takes the place of the one
\* before it.
RECURSIVE CollectLoop_Overwrite(_, _, _, _, _)
CollectLoop_Overwrite(conns, i, n, results, per_port) ==
  IF i > Len(conns) THEN [raised |-> FALSE, per_port |-> per_port]
  ELSE LET c == conns[i] IN
    IF c[3] = n /\ c[1] \in DOMAIN results /\ c[2] < Len(results[c[1]])
      THEN IF c[4] >= Len(per_port)
             THEN [raised |-> TRUE, per_port |-> per_port]
             ELSE CollectLoop_Overwrite(conns, i + 1, n, results,
                    [per_port EXCEPT ![c[4] + 1] = <<results[c[1]][c[2] + 1]>>])
      ELSE CollectLoop_Overwrite(conns, i + 1, n, results, per_port)

\* _collect_node_inputs, the loop over self.connections: the values landing on
\* each port, or the IndexError of connections_per_port[in_port].
RECURSIVE CollectLoop(_, _, _, _, _)
CollectLoop(conns, i, n, results, per_port) ==
  IF i > Len(conns) THEN [raised |-> FALSE, per_port |-> per_port]
  ELSE LET c == conns[i] IN
    IF c[3] = n /\ c[1] \in DOMAIN results /\ c[2] < Len(results[c[1]])
      THEN IF c[4] >= Len(per_port)
             THEN [raised |-> TRUE, per_port |-> per_port]
             ELSE CollectLoop(conns, i + 1, n, results,
                    [per_port EXCEPT ![c[4] + 1] =
                       Append(@, results[c[1]][c[2] + 1])])
      ELSE CollectLoop(conns, i + 1, n, results, per_port)

\* A slip of _collect_node_inputs: a single value is left wrapped in a list.
_collect_node_inputs_NoUnwrap(n, results) ==
  LET r == CollectLoop(connections, 1, n, results,
                       [p \in 1..num_inputs[n] |-> <<>>])
  IN IF r.raised THEN [raised |-> TRUE, value |-> <<>>]
     ELSE [raised |-> FALSE,
           value |-> [p \in 1..num_inputs[n] |->
                        IF Len(r.per_port[p]) = 0 THEN NoneV
                        ELSE ListV(r.per_port[p])]]

\* _collect_node_inputs: the input tuple of node n.
_collect_node_inputs(n, results) ==
  LET r == CollectLoop(connections, 1, n, results,
                       [p \in 1..num_inputs[n] |-> <<>>])
  IN IF r.raised THEN [raised |-> TRUE, value |-> <<>>]
     ELSE [raised |-> FALSE,
           value |-> [p \in 1..num_inputs[n] |->
                        IF Len(r.per_port[p]) = 0 THEN NoneV
                        ELSE IF Len(r.per_port[p]) = 1 THEN r.per_port[p][1]
                        ELSE ListV(r.per_port[p])]]

\* A slip of _process_special_output: the test for a dict with a reserved key
\* is left out and every output is handed to the panel.
_process_special_output_Always(output, n) ==
  IF output.tag = "_plot" THEN <<[call |-> "add_plot", label |-> title[n]]>>
  ELSE IF output.tag = "_table" THEN <<[call |-> "add_table", label |-> title[n]]>>
  ELSE <<[call |-> "add_data", label |-> title[n]]>>

\* _process_special_output: the call queued for the output panel, if any.
_process_special_output(output, n) ==
  IF output.tag = "_plot" THEN <<[call |-> "add_plot", label |-> title[n]]>>
  ELSE IF output.tag = "_table" THEN <<[call |-> "add_table", label |-> title[n]]>>
  ELSE IF output.tag = "_data" THEN <<[call |-> "add_data", label |-> title[n]]>>
  ELSE <<>>

\* ------------------------------------------------------------------ Init
Titles == <<"A", "B", "C", "D", "E">>

NoResult == [kind |-> "none", outputs |-> <<>>, title |-> "", text |-> ""]
NoOrder == [none |-> FALSE, order |-> <<>>]

\* A run's frame, pool and history before on_run_clicked.
FrameIdle ==
  /\ pc = "idle" /\ execution_order = NoOrder /\ levels = <<>> /\ level_idx = 0
  /\ node_results = <<>> /\ results_lock = 0
  /\ stdout = "real" /\ level_results = <<>>
  /\ pending = "none" /\ ret = "none"
  /\ task = [n \in NodeIds |-> "none"]
  /\ inputs = [n \in NodeIds |-> <<>>]
  /\ outputs = [n \in NodeIds |-> <<>>]
  /\ result = [n \in NodeIds |-> NoResult]
  /\ completed = <<>> /\ snapshot = {} /\ yielded = <<>>
  /\ printed = <<>> /\ delivered = <<>>
  /\ grouper_calls = 0 /\ scripts_run = {}
  /\ cache_start = <<>>
  /\ call_log = [n \in NodeIds |-> <<>>]

\* ------------------------------------------------------------------ the graph
\* The script texts and input-port counts of the graphs that are run.
RunScripts == {S_Empty, S_Plot, S_Div0, S_Exit}
RunInputs == {1}

\* The record of the handler that ran last, kept for those that append
\* connections or delete a node (NoOp after any other): its name, the node it
\* acted on, for a release the input ports under the pointer (hits) and the
\* connections appended (added), and the exception that left the handler.
NoOp == [op |-> "", node |-> 0, hits |-> 0, added |-> 0, error |-> ""]
Op(name, node) == [NoOp EXCEPT !.op = name, !.node = node]

\* The one path the file dialogs offer, and the file saved there from an empty
\* canvas: what json.dump wrote for no node and no connection.
FilePath == "untitled.assets"
EmptyFile == [version |-> "1.0", nodes |-> <<>>, connections |-> <<>>]

\* No gesture in progress, nothing copied, selected or under a menu; no file
\* has been saved or opened in this window.
EditIdle ==
  /\ current_file = "" /\ disk = EmptyFile
  /\ focused_node_index = -1 /\ clipboard_node = 0
  /\ creating_connection = FALSE
  /\ connection_start_node = 0 /\ connection_start_port = 0
  /\ selected_connection = <<>> /\ context_menu_node = 0
  /\ last_op = NoOp

\* A canvas built in the editor: k nodes added from the library
\* (on_node_template_clicked), each moved to a place of its own, their scripts
\* and port counts set in the dialogs, the connections drawn one by one
\* (_finish_connection).  No node has been executed: the cache entries are empty.
Built(k, texts, ins, outs, conns) ==
  /\ nodes = [i \in 1..k |-> i]
  /\ connections = conns
  /\ title = [n \in NodeIds |-> Titles[n]]
  /\ num_inputs = [n \in NodeIds |-> IF n <= k THEN ins[n] ELSE 1]
  /\ num_outputs = [n \in NodeIds |-> IF n <= k THEN outs[n] ELSE 1]
  /\ code = [n \in NodeIds |-> IF n <= k THEN texts[n] ELSE S_Empty]
  /\ cache_valid = [n \in NodeIds |-> FALSE]
  /\ last_inputs = [n \in NodeIds |-> NoHash]
  /\ last_outputs = [n \in NodeIds |-> <<>>]
  /\ pos = [n \in NodeIds |-> n]
  /\ created = k
  /\ EditIdle

\* The lists of at most m connections drawn from the set C: _finish_connection
\* appends a connection only when the list does not hold it yet.
ListsOver(C, m) ==
  {s \in SeqsUpTo(C, m) : \A i, j \in 1..Len(s) : i # j => s[i] # s[j]}

\* The connection lists over k nodes with at most m connections, all on port 0.
ConnLists(k, m) == ListsOver((1..k) \X {0} \X (1..k) \X {0}, m)

\* A window in which a graph has been built; no run yet.
Init ==
  /\ \E k \in 0..RunNodes :
       \E texts \in [1..k -> RunScripts], ins \in [1..k -> RunInputs] :
         \E conns \in ConnLists(k, RunConns) :
           Built(k, texts, ins, [i \in 1..k |-> 1], conns)
  /\ FrameIdle

\* ------------------------------------------------------------------ the run
\* on_run_clicked: the button is disabled and the background thread started.
on_run_clicked ==
  /\ pc = "idle"
  /\ pc' = "validating"
  /\ cache_start' = <<cache_valid, last_inputs, last_outputs>>
  /\ UNCHANGED <<editVars, canvasVars, cacheVars, execution_order, levels, level_idx,
                 node_results, results_lock, stdout, level_results, pending, ret, poolVars,
                 outVars, grouper_calls, scripts_run, call_log>>

\* execute_graph, lines 685-699: the empty check and the cycle check.
execute_graph_validate ==
  /\ pc = "validating"
  /\ IF nodes = <<>>
       THEN /\ pc' = "returned" /\ ret' = "False"
            /\ UNCHANGED <<execution_order, printed>>
       ELSE LET order == _topological_sort(nodes, connections) IN
            /\ execution_order' = order
            /\ IF order.none
                 THEN /\ pc' = "returned" /\ ret' = "False"
                      /\ printed' = Append(printed,
                                      [kind |-> "cycle", title |-> "", text |-> ""])
                 ELSE /\ pc' = "grouping" /\ UNCHANGED <<ret, printed>>
  /\ UNCHANGED <<editVars, canvasVars, cacheVars, levels, level_idx, node_results, results_lock, stdout,
                 level_results, pending, poolVars, delivered, histVars>>

\* A slip of execute_graph_group: the node list is left in the order of
\* _topological_sort.
execute_graph_group_Sorted ==
  /\ pc = "grouping"
  /\ nodes' = execution_order.order
  /\ levels' = _group_by_execution_level(nodes, connections)
  /\ grouper_calls' = grouper_calls + 1
  /\ node_results' = <<>>
  /\ results_lock' = 0
  /\ stdout' = "captured"
  /\ level_idx' = 0
  /\ pc' = "launch"
  /\ UNCHANGED <<editVars, connections, title, num_inputs, num_outputs, code,
                 cacheVars, execution_order, level_results, pending,
                 ret, poolVars, outVars, scripts_run, cache_start, call_log>>

\* execute_graph, lines 702-719: the levels, the result store, the capture.
execute_graph_group ==
  /\ pc = "grouping"
  /\ levels' = _group_by_execution_level(nodes, connections)
  /\ grouper_calls' = grouper_calls + 1
  /\ node_results' = <<>>
  /\ results_lock' = 0
  /\ stdout' = "captured"
  /\ level_idx' = 0
  /\ pc' = "launch"
  /\ UNCHANGED <<editVars, canvasVars, cacheVars, execution_order, level_results, pending,
                 ret, poolVars, outVars, scripts_run, cache_start, call_log>>

\* The nodes of the level being run.
Level == IF level_idx < Len(levels) THEN levels[level_idx + 1] ELSE <<>>

\* execute_graph, lines 723-752 and 773-787: the head of the for loop.  With a
\* level left, the pool is created and one task per node submitted; with none
\* left the capture ends and the run returns True.
execute_graph_launch ==
  /\ pc = "launch"
  /\ IF level_idx >= Len(levels)
       THEN /\ stdout' = "real" /\ ret' = "True" /\ pc' = "returned"
            /\ UNCHANGED <<poolVars, level_results, printed>>
       ELSE IF Level = <<>>
         THEN \* ThreadPoolExecutor(max_workers=0) raises ValueError (line 789)
              /\ stdout' = "real" /\ ret' = "False" /\ pc' = "returned"
              /\ printed' = Append(printed, [kind |-> "run", title |-> "",
                                             text |-> "max_workers"])
              /\ UNCHANGED <<poolVars, level_results>>
         ELSE /\ task' = [n \in NodeIds |->
                            IF n \in Range(Level) THEN "queued" ELSE task[n]]
              /\ completed' = <<>> /\ snapshot' = {} /\ yielded' = <<>>
              /\ level_results' = <<>>
              /\ pc' = "submitted"
              /\ UNCHANGED <<inputs, outputs, result, stdout, ret, printed>>
  /\ UNCHANGED <<editVars, canvasVars, cacheVars, execution_order, levels, level_idx,
                 node_results, results_lock, pending, delivered, histVars>>

PoolAlive == pc \in {"submitted", "waiting", "exiting"}

\* The report execute_node_wrapper builds in its except clause (line 746).
ErrorOf(n, text) == [kind |-> "error", outputs |-> <<>>, title |-> title[n],
                     text |-> text]

\* execute_node_wrapper, lines 731-732: the inputs, under results_lock.
WorkerCollect(n) ==
  /\ PoolAlive /\ task[n] = "queued"
  /\ LET c == _collect_node_inputs(n, node_results) IN
       IF c.raised
         THEN /\ result' = [result EXCEPT ![n] = ErrorOf(n, "list index out of range")]
              /\ task' = [task EXCEPT ![n] = "returning"]
              /\ UNCHANGED inputs
         ELSE /\ inputs' = [inputs EXCEPT ![n] = c.value]
              /\ task' = [task EXCEPT ![n] = "collected"]
              /\ UNCHANGED result
  /\ UNCHANGED <<editVars, canvasVars, cacheVars, frameVars, outputs, completed, snapshot,
                 yielded, outVars, histVars>>

\* execute_node_wrapper, line 735: _execute_node_code.  An Exception is caught
\* by the wrapper (line 744); anything else leaves it and ends in the future.
WorkerExecute(n) ==
  /\ PoolAlive /\ task[n] = "collected"
  /\ LET r == _execute_node_code(n, inputs[n]) IN
       /\ scripts_run' = IF r.ran THEN scripts_run \cup {n} ELSE scripts_run
       /\ call_log' = Logged(call_log, n, inputs[n], r)
       /\ IF r.cached
            THEN \* Node.set_cache
                 /\ last_inputs' = [last_inputs EXCEPT
                                      ![n] = SomeHash(_hash_inputs(inputs[n]))]
                 /\ last_outputs' = [last_outputs EXCEPT ![n] = r.outputs]
                 /\ cache_valid' = [cache_valid EXCEPT ![n] = TRUE]
            ELSE UNCHANGED cacheVars
       /\ IF r.kind = "ok"
            THEN /\ outputs' = [outputs EXCEPT ![n] = r.outputs]
                 /\ task' = [task EXCEPT ![n] = "executed"]
                 /\ UNCHANGED result
            ELSE /\ result' = [result EXCEPT ![n] =
                                 IF r.kind = "Exception" THEN ErrorOf(n, r.text)
                                 ELSE [kind |-> "raise", outputs |-> <<>>,
                                       title |-> "", text |-> r.text]]
                 /\ task' = [task EXCEPT ![n] = "returning"]
                 /\ UNCHANGED outputs
  /\ UNCHANGED <<editVars, canvasVars, frameVars, inputs, completed, snapshot, yielded,
                 outVars, grouper_calls, cache_start>>

\* A slip of WorkerStore: the outputs are returned but not put in node_results.
WorkerStore_Skip(n) ==
  /\ PoolAlive /\ task[n] = "executed"
  /\ result' = [result EXCEPT ![n] = [kind |-> "ok", outputs |-> outputs[n],
                                      title |-> "", text |-> ""]]
  /\ task' = [task EXCEPT ![n] = "returning"]
  /\ UNCHANGED <<editVars, canvasVars, cacheVars, frameVars, inputs, outputs, completed,
                 snapshot, yielded, outVars, histVars>>

\* A slip of WorkerStore: the store is replaced by one that holds the node's
\* outputs alone, those of the nodes stored before being lost.
WorkerStore_Replace(n) ==
  /\ PoolAlive /\ task[n] = "executed"
  /\ node_results' = (n :> outputs[n])
  /\ result' = [result EXCEPT ![n] = [kind |-> "ok", outputs |-> outputs[n],
                                      title |-> "", text |-> ""]]
  /\ task' = [task EXCEPT ![n] = "returning"]
  /\ UNCHANGED <<editVars, canvasVars, cacheVars, pc, execution_order, levels, level_idx,
                 results_lock, stdout, level_results, pending, ret, inputs, outputs, completed,
                 snapshot, yielded, outVars, histVars>>

\* execute_node_wrapper, lines 738-742: the store, under results_lock.
WorkerStore(n) ==
  /\ PoolAlive /\ task[n] = "executed"
  /\ node_results' = (n :> outputs[n]) @@ node_results
  /\ result' = [result EXCEPT ![n] = [kind |-> "ok", outputs |-> outputs[n],
                                      title |-> "", text |-> ""]]
  /\ task' = [task EXCEPT ![n] = "returning"]
  /\ UNCHANGED <<editVars, canvasVars, cacheVars, pc, execution_order, levels, level_idx,
                 results_lock, stdout, level_results, pending, ret, inputs, outputs, completed,
                 snapshot, yielded, outVars, histVars>>

\* The wrapper has returned or raised: the future is finished.
WorkerFinish(n) ==
  /\ PoolAlive /\ task[n] = "returning"
  /\ task' = [task EXCEPT ![n] = "finished"]
  /\ completed' = Append(completed, n)
  /\ UNCHANGED <<editVars, canvasVars, cacheVars, frameVars, inputs, outputs, result,
                 snapshot, yielded, outVars, histVars>>

\* as_completed(futures), line 755: the futures already finished are set apart.
as_completed_call ==
  /\ pc = "submitted"
  /\ snapshot' = {n \in Range(Level) : task[n] = "finished"}
  /\ pc' = "waiting"
  /\ UNCHANGED <<editVars, canvasVars, cacheVars, execution_order, levels, level_idx,
                 node_results, results_lock, stdout, level_results, pending, ret, task, inputs,
                 outputs, result, completed, yielded, outVars, histVars>>

\* A slip of NextYield: as_completed hands no future over.
NextYield_Never == {}

\* The futures as_completed may hand over next: those of the snapshot in any
\* order, then the others in the order they finish.
NextYield ==
  LET seen == Range(yielded)
      late == SelectSeq(completed, LAMBDA n : n \notin snapshot /\ n \notin seen)
  IN IF snapshot \ seen # {} THEN snapshot \ seen
     ELSE IF late # <<>> THEN {Head(late)} ELSE {}

\* execute_graph, lines 755-765: one turn of the as_completed loop.
execute_graph_observe(n) ==
  /\ pc = "waiting" /\ n \in NextYield
  /\ yielded' = Append(yielded, n)
  /\ IF result[n].kind = "raise"
       THEN \* future.result() raises; no except clause of execute_graph takes it
            /\ pending' = "raise" /\ pc' = "exiting"
            /\ UNCHANGED <<stdout, printed, level_results>>
       ELSE IF result[n].kind = "error"
         THEN /\ stdout' = "real"
              /\ printed' = Append(printed, result[n])
              /\ pending' = "return" /\ pc' = "exiting"
              /\ UNCHANGED level_results
         ELSE /\ level_results' = Append(level_results, <<n, result[n].outputs>>)
              /\ UNCHANGED <<pc, pending, stdout, printed>>
  /\ UNCHANGED <<editVars, canvasVars, cacheVars, execution_order, levels, level_idx,
                 node_results, results_lock, ret, task, inputs, outputs, result, completed,
                 snapshot, delivered, histVars>>

\* The calls _process_special_output queues for one node's outputs.
RECURSIVE SpecialOutputs(_, _)
SpecialOutputs(outs, n) ==
  IF outs = <<>> THEN <<>>
  ELSE _process_special_output(Head(outs), n) \o SpecialOutputs(Tail(outs), n)

RECURSIVE LevelOutputs(_)
LevelOutputs(lr) ==
  IF lr = <<>> THEN <<>>
  ELSE SpecialOutputs(Head(lr)[2], Head(lr)[1]) \o LevelOutputs(Tail(lr))

\* A slip of execute_graph_level_done: the loop goes on to the next level after
\* the first future handed over, the pool not being waited for.
execute_graph_level_done_First ==
  /\ pc = "waiting"
  /\ yielded # <<>>
  /\ delivered' = delivered \o LevelOutputs(level_results)
  /\ level_idx' = level_idx + 1
  /\ pc' = "launch"
  /\ UNCHANGED <<editVars, canvasVars, cacheVars, execution_order, levels, node_results, results_lock,
                 stdout, level_results, pending, ret, poolVars, printed, histVars>>

\* execute_graph, lines 767-771: every future was handed over without error;
\* the pool is left, the level's outputs go to the output panel, next level.
execute_graph_level_done ==
  /\ pc = "waiting"
  /\ Range(yielded) = Range(Level)
  /\ delivered' = delivered \o LevelOutputs(level_results)
  /\ level_idx' = level_idx + 1
  /\ pc' = "launch"
  /\ UNCHANGED <<editVars, canvasVars, cacheVars, execution_order, levels, node_results, results_lock,
                 stdout, level_results, pending, ret, poolVars, printed, histVars>>

\* A slip of execute_graph_exit: the pool is shut down without waiting.
execute_graph_exit_NoWait ==
  /\ pc = "exiting"
  /\ IF pending = "return"
       THEN pc' = "returned" /\ ret' = "False"
       ELSE pc' = "raised" /\ UNCHANGED ret
  /\ UNCHANGED <<editVars, canvasVars, cacheVars, execution_order, levels, level_idx,
                 node_results, results_lock, stdout, level_results, pending, poolVars, outVars,
                 histVars>>

\* ThreadPoolExecutor.__exit__ after return False or an exception: shutdown
\* waits for every submitted task; then the return, or the exception leaves
\* execute_graph and the background thread.
execute_graph_exit ==
  /\ pc = "exiting"
  /\ \A n \in Range(Level) : task[n] = "finished"
  /\ IF pending = "return"
       THEN pc' = "returned" /\ ret' = "False"
       ELSE pc' = "raised" /\ UNCHANGED ret
  /\ UNCHANGED <<editVars, canvasVars, cacheVars, execution_order, levels, level_idx,
                 node_results, results_lock, stdout, level_results, pending, poolVars, outVars,
                 histVars>>

\* run_in_background's finish(): the button is enabled again, the run is over.
finish ==
  /\ pc = "returned"
  /\ pc' = "idle" /\ execution_order' = NoOrder /\ levels' = <<>> /\ level_idx' = 0
  /\ node_results' = <<>> /\ results_lock' = 0
  /\ stdout' = stdout /\ level_results' = <<>>
  /\ pending' = "none" /\ ret' = "none"
  /\ task' = [n \in NodeIds |-> "none"]
  /\ inputs' = [n \in NodeIds |-> <<>>]
  /\ outputs' = [n \in NodeIds |-> <<>>]
  /\ result' = [n \in NodeIds |-> NoResult]
  /\ completed' = <<>> /\ snapshot' = {} /\ yielded' = <<>>
  /\ printed' = <<>> /\ delivered' = <<>>
  /\ grouper_calls' = 0 /\ scripts_run' = {}
  /\ cache_start' = <<>>
  /\ call_log' = [n \in NodeIds |-> <<>>]
  /\ UNCHANGED <<editVars, canvasVars, cacheVars>>

Worker == \E n \in NodeIds :
  WorkerCollect(n) \/ WorkerExecute(n) \/ WorkerStore(n) \/ WorkerFinish(n)

Next ==
  \/ on_run_clicked
  \/ execute_graph_validate
  \/ execute_graph_group
  \/ execute_graph_launch
  \/ Worker
  \/ as_completed_call
  \/ \E n \in NodeIds : execute_graph_observe(n)
  \/ execute_graph_level_done
  \/ execute_graph_exit
  \/ finish

Spec == Init /\ [][Next]_vars

\* The scheduling of the threads: the background thread that runs
\* execute_graph goes on whenever it can, and so does each worker of the pool;
\* GLib runs finish once it is queued.
MainThread ==
  \/ execute_graph_validate
  \/ execute_graph_group
  \/ execute_graph_launch
  \/ as_completed_call
  \/ \E n \in NodeIds : execute_graph_observe(n)
  \/ execute_graph_level_done
  \/ execute_graph_exit

WorkerThread(n) ==
  WorkerCollect(n) \/ WorkerExecute(n) \/ WorkerStore(n) \/ WorkerFinish(n)

Fairness ==
  /\ WF_vars(MainThread)
  /\ \A n \in NodeIds : WF_vars(WorkerThread(n))
  /\ WF_vars(finish)

\* The graphs whose runs are followed to their end: up to RunNodes nodes with
\* up to RunConns connections, cyclic ones among them.
LiveScripts == {S_Empty, S_Div0}

InitLive ==
  /\ \E k \in 1..RunNodes :
       \E texts \in [1..k -> LiveScripts] :
         \E conns \in ConnLists(k, RunConns) :
           Built(k, texts, [i \in 1..k |-> 1], [i \in 1..k |-> 1], conns)
  /\ FrameIdle

SpecLive == InitLive /\ [][Next]_vars /\ Fairness

\* The Run button: sensitive when pc = "idle"; on_run_clicked makes it
\* insensitive and finish sensitive again.  The runs of the graphs of up to
\* ButtonNodes nodes, a script that leaves by SystemExit among them, under the
\* same scheduling.
ButtonNodes == 2
ButtonScripts == {S_Empty, S_Div0, S_Exit}

InitButton ==
  /\ \E k \in 0..ButtonNodes :
       \E texts \in [1..k -> ButtonScripts] :
         \E conns \in ConnLists(k, 1) :
           Built(k, texts, [i \in 1..k |-> 1], [i \in 1..k |-> 1], conns)
  /\ FrameIdle

SpecButton == InitButton /\ [][Next]_vars /\ Fairness

\* ------------------------------------------------------------------ the lock
\* The workers step by step.  WorkerCollect and WorkerStore above take each
\* `with results_lock:` block as one step; here a block is entered
\* (results_lock_acquire), and its body and its exit are a later step, so that
\* the workers of a level interleave inside and around the blocks.  A worker
\* is in a block, reading or writing node_results, while its task is
\* "collecting" or "storing".

\* A slip of results_lock_acquire: the block is entered without waiting for
\* the lock.
results_lock_acquire_NoWait(n) ==
  /\ PoolAlive /\ task[n] \in {"queued", "executed"}
  /\ results_lock' = n
  /\ task' = [task EXCEPT ![n] = IF task[n] = "queued" THEN "collecting"
                                 ELSE "storing"]
  /\ UNCHANGED <<editVars, canvasVars, cacheVars, pc, execution_order, levels,
                 level_idx, node_results, stdout, level_results, pending, ret,
                 inputs, outputs, result, completed, snapshot, yielded, outVars,
                 histVars>>

\* `with results_lock:` (lines 731 and 738), Lock.__enter__: the worker waits
\* until the lock is free and takes it.
results_lock_acquire(n) ==
  /\ PoolAlive /\ task[n] \in {"queued", "executed"}
  /\ results_lock = 0
  /\ results_lock' = n
  /\ task' = [task EXCEPT ![n] = IF task[n] = "queued" THEN "collecting"
                                 ELSE "storing"]
  /\ UNCHANGED <<editVars, canvasVars, cacheVars, pc, execution_order, levels,
                 level_idx, node_results, stdout, level_results, pending, ret,
                 inputs, outputs, result, completed, snapshot, yielded, outVars,
                 histVars>>

\* Lines 731-732, the body of the first block and its exit: node_results is
\* read by _collect_node_inputs and the lock released, also when the read
\* raises.
WorkerCollectLocked(n) ==
  /\ PoolAlive /\ task[n] = "collecting"
  /\ LET c == _collect_node_inputs(n, node_results) IN
       IF c.raised
         THEN /\ result' = [result EXCEPT ![n] = ErrorOf(n, "list index out of range")]
              /\ task' = [task EXCEPT ![n] = "returning"]
              /\ UNCHANGED inputs
         ELSE /\ inputs' = [inputs EXCEPT ![n] = c.value]
              /\ task' = [task EXCEPT ![n] = "collected"]
              /\ UNCHANGED result
  /\ results_lock' = 0
  /\ UNCHANGED <<editVars, canvasVars, cacheVars, pc, execution_order, levels,
                 level_idx, node_results, stdout, level_results, pending, ret,
                 outputs, completed, snapshot, yielded, outVars, histVars>>

\* Lines 738-742, the body of the second block and its exit: node_results is
\* written and the lock released; then the wrapper returns the outputs.
WorkerStoreLocked(n) ==
  /\ PoolAlive /\ task[n] = "storing"
  /\ node_results' = (n :> outputs[n]) @@ node_results
  /\ results_lock' = 0
  /\ result' = [result EXCEPT ![n] = [kind |-> "ok", outputs |-> outputs[n],
                                      title |-> "", text |-> ""]]
  /\ task' = [task EXCEPT ![n] = "returning"]
  /\ UNCHANGED <<editVars, canvasVars, cacheVars, pc, execution_order, levels,
                 level_idx, stdout, level_results, pending, ret, inputs, outputs,
                 completed, snapshot, yielded, outVars, histVars>>

WorkerLocked == \E n \in NodeIds :
  \/ results_lock_acquire(n)
  \/ WorkerCollectLocked(n)
  \/ WorkerExecute(n)
  \/ WorkerStoreLocked(n)
  \/ WorkerFinish(n)

NextLock ==
  \/ on_run_clicked
  \/ execute_graph_validate
  \/ execute_graph_group
  \/ execute_graph_launch
  \/ WorkerLocked
  \/ as_completed_call
  \/ \E n \in NodeIds : execute_graph_observe(n)
  \/ execute_graph_level_done
  \/ execute_graph_exit
  \/ finish

\* The graphs run step by step: up to RunNodes nodes, at most one connection.
InitLock ==
  /\ \E k \in 1..RunNodes :
       \E texts \in [1..k -> {S_Empty, S_Div0}] :
         \E conns \in ConnLists(k, 1) :
           Built(k, texts, [i \in 1..k |-> 1], [i \in 1..k |-> 1], conns)
  /\ FrameIdle

SpecLock == InitLock /\ [][NextLock]_vars

\* The structural analyses alone, on every graph of the larger bounds: the
\* nodes carry no script.
InitGraph ==
  /\ \E k \in 0..MaxNodes :
       \E conns \in ConnLists(k, MaxConns) :
         Built(k, [i \in 1..k |-> S_Empty], [i \in 1..k |-> 1],
               [i \in 1..k |-> 1], conns)
  /\ FrameIdle

NextGraph ==
  \/ on_run_clicked
  \/ execute_graph_validate
  \/ execute_graph_group

SpecGraph == InitGraph /\ [][NextGraph]_vars

\* ------------------------------------------------------------------ the node
\* The script was reassigned to a different text after the newest call.
Reassigned(log, n) ==
  IF log[n] = <<>> THEN log
  ELSE [log EXCEPT ![n][Len(log[n])].reassigned = TRUE]

\* A slip of the setter of Node.code: the cache entry is left as it is.
code_setter_NoInvalidate(n, value) ==
  IF code[n] # value
    THEN /\ code' = [code EXCEPT ![n] = value]
         /\ call_log' = Reassigned(call_log, n)
         /\ UNCHANGED cacheVars
    ELSE UNCHANGED <<code, cacheVars, call_log>>

\* Node.code, the setter: a different text is stored and invalidate_cache
\* called; the same text changes nothing.
code_setter(n, value) ==
  IF code[n] # value
    THEN /\ code' = [code EXCEPT ![n] = value]
         /\ cache_valid' = [cache_valid EXCEPT ![n] = FALSE]
         /\ last_inputs' = [last_inputs EXCEPT ![n] = NoHash]
         /\ last_outputs' = [last_outputs EXCEPT ![n] = <<>>]
         /\ call_log' = Reassigned(call_log, n)
    ELSE UNCHANGED <<code, cacheVars, call_log>>

\* What the dialogs can hand back.
DialogScripts == {S_Blank, S_Ret5, S_RetDouble, S_Div0}
DialogTitles == {"A", "B"}
DialogPorts == 1..2

\* The node drawn last among those lying at a place: the one a click there hits.
Topmost(place) ==
  LET at == SelectSeq(nodes, LAMBDA m : pos[m] = place)
  IN IF at = <<>> THEN 0 ELSE at[Len(at)]

\* on_mouse_pressed, button 3 on the body of node n: the context menu is shown
\* for it.
on_mouse_pressed_right(n) ==
  /\ pc = "idle" /\ n \in Range(nodes) /\ n = Topmost(pos[n])
  /\ context_menu_node' = n
  /\ last_op' = NoOp
  /\ UNCHANGED <<canvasVars, cacheVars, frameVars, poolVars, outVars, histVars,
                 focused_node_index, clipboard_node, creating_connection,
                 connection_start_node, connection_start_port,
                 selected_connection, pos, created>>
  /\ UNCHANGED <<current_file, disk>>

\* _on_code_editor_response with Gtk.ResponseType.OK, the dialog having been
\* opened by edit_node_code for context_menu_node.
_on_code_editor_response(new_code) ==
  /\ pc = "idle" /\ context_menu_node # 0
  /\ code_setter(context_menu_node, new_code)
  /\ last_op' = NoOp
  /\ UNCHANGED <<nodes, connections, title, num_inputs, num_outputs, frameVars,
                 poolVars, outVars, grouper_calls, scripts_run, cache_start,
                 focused_node_index, clipboard_node, creating_connection,
                 connection_start_node, connection_start_port,
                 selected_connection, context_menu_node, pos, created>>
  /\ UNCHANGED <<current_file, disk>>

\* _on_properties_response with Gtk.ResponseType.OK, the dialog having been
\* opened by show_node_properties for context_menu_node.
_on_properties_response(props) ==
  /\ pc = "idle" /\ context_menu_node # 0
  /\ LET node == context_menu_node IN
       /\ title' = [title EXCEPT ![node] = props.title]
       /\ num_inputs' = [num_inputs EXCEPT ![node] = props.num_inputs]
       /\ num_outputs' = [num_outputs EXCEPT ![node] = props.num_outputs]
       /\ code_setter(node, props.code)
  /\ last_op' = NoOp
  /\ UNCHANGED <<nodes, connections, frameVars, poolVars, outVars,
                 grouper_calls, scripts_run, cache_start,
                 focused_node_index, clipboard_node, creating_connection,
                 connection_start_node, connection_start_port,
                 selected_connection, context_menu_node, pos, created>>
  /\ UNCHANGED <<current_file, disk>>

\* The input tuples a node is called with.
CallValues == {IntV(3), IntV(4)}

\* One call of _execute_node_code(node, inputs), set_cache included.
call_execute_node_code(n, ins) ==
  /\ pc = "idle" /\ n \in Range(nodes)
  /\ Len(ins) = num_inputs[n]
  /\ LET r == _execute_node_code(n, ins) IN
       /\ scripts_run' = IF r.ran THEN scripts_run \cup {n} ELSE scripts_run
       /\ call_log' = Logged(call_log, n, ins, r)
       /\ IF r.cached
            THEN \* Node.set_cache
                 /\ last_inputs' = [last_inputs EXCEPT
                                      ![n] = SomeHash(_hash_inputs(ins))]
                 /\ last_outputs' = [last_outputs EXCEPT ![n] = r.outputs]
                 /\ cache_valid' = [cache_valid EXCEPT ![n] = TRUE]
            ELSE UNCHANGED cacheVars
  /\ UNCHANGED <<editVars, canvasVars, frameVars, poolVars, outVars,
                 grouper_calls, cache_start>>

Props == [title : DialogTitles, num_inputs : DialogPorts,
          num_outputs : DialogPorts, code : DialogScripts]

\* One node on the canvas, called and edited in turn.
InitNode ==
  /\ \E text \in DialogScripts, i \in DialogPorts, o \in DialogPorts :
       Built(1, <<text>>, <<i>>, <<o>>, <<>>)
  /\ FrameIdle

NextNode ==
  \/ \E n \in NodeIds : on_mouse_pressed_right(n)
  \/ \E t \in DialogScripts : _on_code_editor_response(t)
  \/ \E props \in Props : _on_properties_response(props)
  \/ \E n \in NodeIds : \E ins \in SeqsUpTo(CallValues, 2) :
       call_execute_node_code(n, ins)

SpecNode == InitNode /\ [][NextNode]_vars

\* ------------------------------------------------------------------ the calls
\* The scripts and the input values of a node that is called again and again,
\* its script left as it is.
CacheScripts == {S_Empty, S_Blank, S_Ret5, S_Ret10, S_RetDouble, S_RetFirst,
                 S_Div0, S_Syntax}
CacheValues == {IntV(3), IntV(4), NoneV, ListV(<<IntV(3), IntV(4)>>)}

\* One call of _execute_node_code(node, inputs), set_cache included; the last
\* three calls of the node are kept.
call_execute_node_code_again(n, ins) ==
  /\ pc = "idle" /\ n \in Range(nodes)
  /\ Len(ins) = num_inputs[n]
  /\ LET r == _execute_node_code(n, ins) IN
       /\ scripts_run' = IF r.ran THEN scripts_run \cup {n} ELSE scripts_run
       /\ call_log' = LoggedLast3(call_log, n, ins, r)
       /\ IF r.cached
            THEN \* Node.set_cache
                 /\ last_inputs' = [last_inputs EXCEPT
                                      ![n] = SomeHash(_hash_inputs(ins))]
                 /\ last_outputs' = [last_outputs EXCEPT ![n] = r.outputs]
                 /\ cache_valid' = [cache_valid EXCEPT ![n] = TRUE]
            ELSE UNCHANGED cacheVars
  /\ UNCHANGED <<editVars, canvasVars, frameVars, poolVars, outVars,
                 grouper_calls, cache_start>>

\* One node with one input port and one of the scripts.
InitCache ==
  /\ \E text \in CacheScripts : Built(1, <<text>>, <<1>>, <<1>>, <<>>)
  /\ FrameIdle

NextCache ==
  \E n \in NodeIds : \E v \in CacheValues : call_execute_node_code_again(n, <<v>>)

SpecCache == InitCache /\ [][NextCache]_vars

\* ------------------------------------------------------------------ the editor
\* Bounds of the editing sessions (SpecEdit): Node objects created, length of
\* the connection list, places on the canvas where a node can lie.
EditNodes == 2
EditConns == 2
EditPlaces == 2

\* Place 0 is the centre of the view, where on_node_template_clicked puts a
\* node; a pasted node lies at the next place; nodes at one place lie on top
\* of each other, port on port.  The nodes are left where they were created.
Places == 0..(EditPlaces - 1)

\* The templates of the library.
Templates ==
  {[name |-> "A", num_inputs |-> 2, num_outputs |-> 1, default_code |-> S_Empty]}

\* f"{title} (cópia)"
Copia(t) ==
  IF t = "A" THEN "A (cópia)"
  ELSE IF t = "B" THEN "B (cópia)"
  ELSE IF t = "A (cópia)" THEN "A (cópia) (cópia)"
  ELSE IF t = "B (cópia)" THEN "B (cópia) (cópia)"
  ELSE "(cópia) (cópia) (cópia)"

\* What no handler of the editor touches.
runVars == <<cacheVars, frameVars, poolVars, outVars, histVars>>

Reverse(seq) == [i \in 1..Len(seq) |-> seq[Len(seq) + 1 - i]]

\* list.remove(x): the first occurrence is taken out.
Remove(seq, x) ==
  LET i == CHOOSE k \in 1..Len(seq) : seq[k] = x /\ \A j \in 1..(k - 1) : seq[j] # x
  IN [k \in 1..(Len(seq) - 1) |-> IF k < i THEN seq[k] ELSE seq[k + 1]]

\* The focus is on a node of the list.
FocusValid == 0 <= focused_node_index /\ focused_node_index < Len(nodes)
Focused == nodes[focused_node_index + 1]

\* A Node object is constructed: its fields, its empty cache entry, its place.
NewNode(id, t, ins, outs, text, place) ==
  /\ created' = id
  /\ title' = [title EXCEPT ![id] = t]
  /\ num_inputs' = [num_inputs EXCEPT ![id] = ins]
  /\ num_outputs' = [num_outputs EXCEPT ![id] = outs]
  /\ code' = [code EXCEPT ![id] = text]
  /\ pos' = [pos EXCEPT ![id] = place]
  /\ nodes' = Append(nodes, id)

\* on_node_template_clicked: a node made from the template is appended at the
\* centre of the view and gets the focus.
on_node_template_clicked(template) ==
  /\ pc = "idle" /\ created < EditNodes
  /\ NewNode(created + 1, template.name, template.num_inputs,
             template.num_outputs, template.default_code, 0)
  /\ focused_node_index' = Len(nodes)
  /\ last_op' = NoOp
  /\ UNCHANGED <<runVars, connections, clipboard_node, creating_connection,
                 connection_start_node, connection_start_port,
                 selected_connection, context_menu_node>>
  /\ UNCHANGED <<current_file, disk>>

\* on_key_pressed, Ctrl+C: _copy_focused_node.
_copy_focused_node ==
  /\ pc = "idle"
  /\ clipboard_node' = IF FocusValid THEN Focused ELSE clipboard_node
  /\ last_op' = NoOp
  /\ UNCHANGED <<runVars, canvasVars, focused_node_index, creating_connection,
                 connection_start_node, connection_start_port,
                 selected_connection, context_menu_node, pos, created>>
  /\ UNCHANGED <<current_file, disk>>

\* on_key_pressed, Ctrl+V: _paste_node.  The new node has the title and the
\* port counts of the node copied, no script, and lies next to it.
_paste_node ==
  /\ pc = "idle" /\ created < EditNodes
  /\ IF clipboard_node = 0
       THEN /\ last_op' = NoOp
            /\ UNCHANGED <<canvasVars, pos, created, focused_node_index>>
       ELSE /\ NewNode(created + 1, Copia(title[clipboard_node]),
                       num_inputs[clipboard_node], num_outputs[clipboard_node],
                       S_Empty, (pos[clipboard_node] + 1) % EditPlaces)
            /\ focused_node_index' = Len(nodes)
            /\ last_op' = NoOp
            /\ UNCHANGED connections
  /\ UNCHANGED <<runVars, clipboard_node, creating_connection,
                 connection_start_node, connection_start_port,
                 selected_connection, context_menu_node>>
  /\ UNCHANGED <<current_file, disk>>

\* on_key_pressed, Ctrl+D: _duplicate_focused_node, copy then paste.
_duplicate_focused_node ==
  /\ pc = "idle" /\ created < EditNodes
  /\ IF FocusValid
       THEN /\ clipboard_node' = Focused
            /\ NewNode(created + 1, Copia(title[Focused]), num_inputs[Focused],
                       num_outputs[Focused], S_Empty, (pos[Focused] + 1) % EditPlaces)
            /\ focused_node_index' = Len(nodes)
            /\ last_op' = NoOp
            /\ UNCHANGED connections
       ELSE /\ last_op' = NoOp
            /\ UNCHANGED <<canvasVars, pos, created, focused_node_index,
                           clipboard_node>>
  /\ UNCHANGED <<runVars, creating_connection, connection_start_node,
                 connection_start_port, selected_connection, context_menu_node>>
  /\ UNCHANGED <<current_file, disk>>

\* The nodes that have input port `port` drawn at `place`, topmost first.
InputPortAt(place, port) ==
  SelectSeq(Reverse(nodes), LAMBDA m : pos[m] = place /\ port < num_inputs[m])

OutputPortAt(place, port) ==
  SelectSeq(Reverse(nodes), LAMBDA m : pos[m] = place /\ port < num_outputs[m])

\* on_mouse_pressed, button 1 on an input port: _remove_connections_to_input_port
\* of the topmost node that has the port there.
on_mouse_pressed_input_port(place, port) ==
  /\ pc = "idle" /\ InputPortAt(place, port) # <<>>
  /\ LET node == Head(InputPortAt(place, port)) IN
       /\ connections' = SelectSeq(connections,
                            LAMBDA c : ~(c[3] = node /\ c[4] = port))
       /\ last_op' = NoOp
  /\ UNCHANGED <<runVars, nodes, title, num_inputs, num_outputs, code,
                 focused_node_index, clipboard_node, creating_connection,
                 connection_start_node, connection_start_port,
                 selected_connection, context_menu_node, pos, created>>
  /\ UNCHANGED <<current_file, disk>>

\* on_mouse_pressed, button 1 on an output port: a connection is begun.
on_mouse_pressed_output_port(place, port) ==
  /\ pc = "idle" /\ OutputPortAt(place, port) # <<>>
  /\ creating_connection' = TRUE
  /\ connection_start_node' = Head(OutputPortAt(place, port))
  /\ connection_start_port' = port
  /\ last_op' = NoOp
  /\ UNCHANGED <<runVars, canvasVars, focused_node_index, clipboard_node,
                 selected_connection, context_menu_node, pos, created>>
  /\ UNCHANGED <<current_file, disk>>

\* Where the curve of a connection runs: from port to port.
Curve(c) == <<pos[c[1]], c[2], pos[c[3]], c[4]>>

\* get_output_port_position and get_input_port_position give a position.
Drawn(c) == c[2] < num_outputs[c[1]] /\ c[4] < num_inputs[c[3]]

\* on_mouse_pressed, button 1 on the curve of connection c: the first
\* connection of the list that runs there is selected.
on_mouse_pressed_connection(c) ==
  /\ pc = "idle" /\ c \in Range(connections) /\ Drawn(c)
  /\ LET there == SelectSeq(connections,
                     LAMBDA d : Drawn(d) /\ Curve(d) = Curve(c))
     IN selected_connection' = Head(there)
  /\ last_op' = NoOp
  /\ UNCHANGED <<runVars, canvasVars, focused_node_index, clipboard_node,
                 creating_connection, connection_start_node,
                 connection_start_port, context_menu_node, pos, created>>
  /\ UNCHANGED <<current_file, disk>>

\* on_mouse_pressed, button 1 on the body of a node: the topmost node there is
\* brought to the front and focused; the connection selection is dropped.
on_mouse_pressed_node(place) ==
  /\ pc = "idle" /\ Topmost(place) # 0
  /\ LET clicked_node == Topmost(place) IN
       /\ nodes' = Append(Remove(nodes, clicked_node), clicked_node)
       /\ last_op' = NoOp
  /\ focused_node_index' = Len(nodes) - 1
  /\ selected_connection' = <<>>
  /\ UNCHANGED <<runVars, connections, title, num_inputs, num_outputs, code,
                 clipboard_node, creating_connection, connection_start_node,
                 connection_start_port, context_menu_node, pos, created>>
  /\ UNCHANGED <<current_file, disk>>

\* on_mouse_pressed, button 1 on the empty canvas.
on_mouse_pressed_empty ==
  /\ pc = "idle"
  /\ focused_node_index' = -1
  /\ selected_connection' = <<>>
  /\ last_op' = NoOp
  /\ UNCHANGED <<runVars, canvasVars, clipboard_node, creating_connection,
                 connection_start_node, connection_start_port,
                 context_menu_node, pos, created>>
  /\ UNCHANGED <<current_file, disk>>

\* A slip of FinishLoop: the connection is appended without the membership test.
RECURSIVE FinishLoop_NoTest(_, _, _, _)
FinishLoop_NoTest(hit, conns, src, port) ==
  IF hit = <<>> THEN conns
  ELSE FinishLoop_NoTest(Tail(hit),
         Append(conns, <<src, connection_start_port, Head(hit), port>>), src, port)

\* A slip of FinishLoop: a node is not connected to itself.
RECURSIVE FinishLoop_NoSelf(_, _, _, _)
FinishLoop_NoSelf(hit, conns, src, port) ==
  IF hit = <<>> THEN conns
  ELSE LET new_connection == <<src, connection_start_port, Head(hit), port>>
       IN FinishLoop_NoSelf(Tail(hit),
            IF new_connection \in Range(conns) \/ Head(hit) = src THEN conns
            ELSE Append(conns, new_connection), src, port)

\* _finish_connection, the loop over reversed(self.nodes): for every node with
\* an input port under the pointer the connection is appended unless the list
\* holds it; the loop goes on after a hit.
RECURSIVE FinishLoop(_, _, _, _)
FinishLoop(hit, conns, src, port) ==
  IF hit = <<>> THEN conns
  ELSE LET new_connection == <<src, connection_start_port, Head(hit), port>>
       IN FinishLoop(Tail(hit),
            IF new_connection \in Range(conns) THEN conns
            ELSE Append(conns, new_connection), src, port)

\* on_mouse_released while a connection is being created, the pointer over
\* input port `port` at `place`: _finish_connection, then the gesture ends.
on_mouse_released_port(place, port) ==
  /\ pc = "idle" /\ creating_connection
  /\ LET hit == InputPortAt(place, port)
         conns == FinishLoop(hit, connections, connection_start_node, port)
     IN /\ Len(conns) <= EditConns
        /\ connections' = conns
        /\ last_op' = [Op("_finish_connection", 0) EXCEPT
                         !.hits = Len(hit),
                         !.added = Len(conns) - Len(connections)]
  /\ creating_connection' = FALSE
  /\ connection_start_node' = 0
  /\ connection_start_port' = 0
  /\ UNCHANGED <<runVars, nodes, title, num_inputs, num_outputs, code,
                 focused_node_index, clipboard_node, selected_connection,
                 context_menu_node, pos, created>>
  /\ UNCHANGED <<current_file, disk>>

\* _delete_selected_connection.
_delete_selected_connection ==
  IF selected_connection \in Range(connections)
    THEN /\ connections' = Remove(connections, selected_connection)
         /\ selected_connection' = <<>>
    ELSE UNCHANGED <<connections, selected_connection>>

\* _delete_focused_node: the connections of the node, then the node.
_delete_focused_node ==
  IF FocusValid
    THEN LET node_to_delete == Focused IN
         /\ connections' = SelectSeq(connections,
                              LAMBDA c : c[1] # node_to_delete /\ c[3] # node_to_delete)
         /\ nodes' = Remove(nodes, node_to_delete)
         /\ focused_node_index' =
              IF focused_node_index >= Len(nodes) - 1 THEN Len(nodes) - 2
              ELSE focused_node_index
         /\ last_op' = Op("_delete_focused_node", node_to_delete)
    ELSE /\ last_op' = Op("_delete_focused_node", 0)
         /\ UNCHANGED <<connections, nodes, focused_node_index>>

\* on_key_pressed, Delete: the selected connection if there is one, else the
\* focused node.
on_key_pressed_Delete ==
  /\ pc = "idle"
  /\ IF selected_connection # <<>>
       THEN /\ _delete_selected_connection
            /\ last_op' = NoOp
            /\ UNCHANGED <<nodes, focused_node_index>>
       ELSE /\ _delete_focused_node
            /\ UNCHANGED selected_connection
  /\ UNCHANGED <<runVars, title, num_inputs, num_outputs, code, clipboard_node,
                 creating_connection, connection_start_node,
                 connection_start_port, context_menu_node, pos, created>>
  /\ UNCHANGED <<current_file, disk>>

\* delete_context_node, the Delete item of the context menu: the call of
\* self._remove_node raises AttributeError, no such method being defined.
delete_context_node ==
  /\ pc = "idle" /\ context_menu_node # 0
  /\ last_op' = [Op("delete_context_node", context_menu_node) EXCEPT
                   !.error = "AttributeError"]
  /\ UNCHANGED <<runVars, canvasVars, focused_node_index, clipboard_node,
                 creating_connection, connection_start_node,
                 connection_start_port, selected_connection, context_menu_node,
                 pos, created>>
  /\ UNCHANGED <<current_file, disk>>

\* on_new_clicked: both lists are cleared and the window forgets its file.
on_new_clicked ==
  /\ pc = "idle"
  /\ nodes' = <<>> /\ connections' = <<>>
  /\ current_file' = ""
  /\ last_op' = NoOp
  /\ UNCHANGED <<runVars, title, num_inputs, num_outputs, code,
                 focused_node_index, clipboard_node, creating_connection,
                 connection_start_node, connection_start_port,
                 selected_connection, context_menu_node, pos, created, disk>>

\* Node.to_dict: the fields of a node that go to the file.
to_dict(n) ==
  [id |-> n, x |-> pos[n], title |-> title[n], num_inputs |-> num_inputs[n],
   num_outputs |-> num_outputs[n], code |-> code[n]]

\* GraphSerializer.save_graph: what json.dump writes; the connections name
\* their nodes by id.
save_graph(ns, cs) ==
  [version |-> "1.0",
   nodes |-> [i \in 1..Len(ns) |-> to_dict(ns[i])],
   connections |-> [i \in 1..Len(cs) |->
                      [source_node_id |-> cs[i][1], source_port |-> cs[i][2],
                       target_node_id |-> cs[i][3], target_port |-> cs[i][4]]]]

\* Node.from_dict: a new Node with the fields of the file, its script assigned
\* through the setter, its cache entry empty.
from_dict(data) ==
  [id |-> data.id, x |-> data.x, title |-> data.title,
   num_inputs |-> data.num_inputs, num_outputs |-> data.num_outputs,
   code |-> data.code, cache_valid |-> FALSE]

\* GraphSerializer.load_graph: the pair (nodes, connections) it returns, the
\* connections of ids the file has no node for being left out.
load_graph(graph_data) ==
  LET loaded == [i \in 1..Len(graph_data.nodes) |-> from_dict(graph_data.nodes[i])]
      node_id_map == {loaded[i].id : i \in 1..Len(loaded)}
      kept == SelectSeq(graph_data.connections,
                LAMBDA c : c.source_node_id \in node_id_map
                           /\ c.target_node_id \in node_id_map)
  IN [tag |-> "tuple",
      nodes |-> loaded,
      connections |-> [i \in 1..Len(kept) |->
                         <<kept[i].source_node_id, kept[i].source_port,
                           kept[i].target_node_id, kept[i].target_port>>]]

\* on_save_clicked with a current file: the graph is written to it.  (Without
\* one the handler only opens the dialog of _on_save_dialog_response.)
on_save_clicked ==
  /\ pc = "idle" /\ current_file # ""
  /\ disk' = save_graph(nodes, connections)
  /\ last_op' = NoOp
  /\ UNCHANGED <<runVars, canvasVars, focused_node_index, clipboard_node,
                 creating_connection, connection_start_node,
                 connection_start_port, selected_connection, context_menu_node,
                 pos, created, current_file>>

\* _on_save_dialog_response: the graph is written to the path chosen, which
\* becomes the current file.
_on_save_dialog_response ==
  /\ pc = "idle"
  /\ disk' = save_graph(nodes, connections)
  /\ current_file' = FilePath
  /\ last_op' = NoOp
  /\ UNCHANGED <<runVars, canvasVars, focused_node_index, clipboard_node,
                 creating_connection, connection_start_node,
                 connection_start_port, selected_connection, context_menu_node,
                 pos, created>>

\* _on_open_dialog_response: GraphSerializer.load_graph returns a pair of lists,
\* the handler calls .get on it (line 1757), and the AttributeError is caught
\* and printed: the canvas and the current file stay as they are.
_on_open_dialog_response ==
  /\ pc = "idle"
  /\ LET graph_data == load_graph(disk) IN
       /\ graph_data.tag = "tuple"
       /\ last_op' = [Op("_on_open_dialog_response", 0) EXCEPT
                        !.error = "AttributeError"]
  /\ UNCHANGED <<runVars, canvasVars, focused_node_index, clipboard_node,
                 creating_connection, connection_start_node,
                 connection_start_port, selected_connection, context_menu_node,
                 pos, created, current_file, disk>>

\* AssetsCanvas.__init__ and Node defaults: an empty canvas.
InitEdit ==
  /\ nodes = <<>> /\ connections = <<>>
  /\ title = [n \in NodeIds |-> ""]
  /\ num_inputs = [n \in NodeIds |-> 0]
  /\ num_outputs = [n \in NodeIds |-> 0]
  /\ code = [n \in NodeIds |-> S_Empty]
  /\ cache_valid = [n \in NodeIds |-> FALSE]
  /\ last_inputs = [n \in NodeIds |-> NoHash]
  /\ last_outputs = [n \in NodeIds |-> <<>>]
  /\ pos = [n \in NodeIds |-> 0]
  /\ created = 0
  /\ EditIdle
  /\ FrameIdle

\* The properties dialog answered with another count of input ports.
PortProps ==
  IF context_menu_node = 0 THEN {}
  ELSE [title : {title[context_menu_node]}, num_inputs : DialogPorts,
        num_outputs : {num_outputs[context_menu_node]},
        code : {code[context_menu_node]}]

NextEdit ==
  \/ \E template \in Templates : on_node_template_clicked(template)
  \/ _copy_focused_node
  \/ _paste_node
  \/ _duplicate_focused_node
  \/ \E n \in NodeIds : on_mouse_pressed_right(n)
  \/ \E place \in Places, port \in 0..1 : on_mouse_pressed_input_port(place, port)
  \/ \E place \in Places, port \in 0..1 : on_mouse_pressed_output_port(place, port)
  \/ \E c \in Range(connections) : on_mouse_pressed_connection(c)
  \/ \E place \in Places : on_mouse_pressed_node(place)
  \/ on_mouse_pressed_empty
  \/ \E place \in Places, port \in 0..1 : on_mouse_released_port(place, port)
  \/ on_key_pressed_Delete
  \/ delete_context_node
  \/ \E props \in PortProps : _on_properties_response(props)
  \/ on_new_clicked
  \/ _on_open_dialog_response

SpecEdit == InitEdit /\ [][NextEdit]_vars

\* Saving and opening: a graph is put together in the editor, saved, changed or
\* cleared, and the file opened.
NextFile ==
  \/ \E template \in Templates : on_node_template_clicked(template)
  \/ \E place \in Places : on_mouse_pressed_node(place)
  \/ \E place \in Places, port \in 0..1 : on_mouse_pressed_output_port(place, port)
  \/ \E place \in Places, port \in 0..1 : on_mouse_released_port(place, port)
  \/ on_key_pressed_Delete
  \/ on_new_clicked
  \/ on_save_clicked
  \/ _on_save_dialog_response
  \/ _on_open_dialog_response

SpecFile == InitEdit /\ [][NextFile]_vars

\* Wiring and running: a graph is wired in the editor, scripts are typed into
\* its nodes, and it is run; the editor is used again once the run is over.
WireScripts == {S_Empty, S_Div0}

NextWire ==
  \/ \E template \in Templates : on_node_template_clicked(template)
  \/ _copy_focused_node
  \/ _paste_node
  \/ \E n \in NodeIds : on_mouse_pressed_right(n)
  \/ \E new_code \in WireScripts : _on_code_editor_response(new_code)
  \/ \E place \in Places, port \in 0..1 : on_mouse_pressed_output_port(place, port)
  \/ \E place \in Places, port \in 0..1 : on_mouse_released_port(place, port)
  \/ on_run_clicked
  \/ execute_graph_validate
  \/ execute_graph_group
  \/ execute_graph_launch
  \/ Worker
  \/ as_completed_call
  \/ \E n \in NodeIds : execute_graph_observe(n)
  \/ execute_graph_level_done
  \/ execute_graph_exit
  \/ finish

SpecWire == InitEdit /\ [][NextWire]_vars

\* ------------------------------------------------------------------
\* The editor used while a run is in progress.  on_run_clicked disables the
\* Run button only; the canvas keeps answering the mouse, so the context menu
\* and the code editor can be opened and closed from the UI thread while the
\* workers of the background thread are executing nodes.  No lock is held by
\* either side around Node.code or the cache fields.
RaceNodes == 2
RaceScripts == {S_Ret5, S_Ret7, S_Div0}

\* on_mouse_pressed, button 3 on the body of node n, a run being in progress.
on_mouse_pressed_right_running(n) ==
  /\ pc # "idle" /\ n \in Range(nodes) /\ n = Topmost(pos[n])
  /\ context_menu_node' = n
  /\ last_op' = NoOp
  /\ UNCHANGED <<canvasVars, cacheVars, frameVars, poolVars, outVars, histVars,
                 focused_node_index, clipboard_node, creating_connection,
                 connection_start_node, connection_start_port,
                 selected_connection, pos, created, current_file, disk>>

\* _on_code_editor_response with Gtk.ResponseType.OK, a run being in progress.
_on_code_editor_response_running(new_code) ==
  /\ pc # "idle" /\ context_menu_node # 0
  /\ code_setter(context_menu_node, new_code)
  /\ last_op' = NoOp
  /\ UNCHANGED <<nodes, connections, title, num_inputs, num_outputs, frameVars,
                 poolVars, outVars, grouper_calls, scripts_run, cache_start,
                 focused_node_index, clipboard_node, creating_connection,
                 connection_start_node, connection_start_port,
                 selected_connection, context_menu_node, pos, created,
                 current_file, disk>>

\* execute_node_wrapper, line 735, the call of _execute_node_code up to its
\* line 980: the blank test, the cache lookup, and on a miss the script of the
\* node as it reads at this moment, evaluated and its value made a tuple.
WorkerExecuteCall(n) ==
  /\ PoolAlive /\ task[n] = "collected"
  /\ LET r == _execute_node_code(n, inputs[n]) IN
       /\ scripts_run' = IF r.ran THEN scripts_run \cup {n} ELSE scripts_run
       /\ call_log' = Logged(call_log, n, inputs[n], r)
       /\ IF r.kind = "ok"
            THEN /\ outputs' = [outputs EXCEPT ![n] = r.outputs]
                 /\ task' = [task EXCEPT ![n] = IF r.cached THEN "computed"
                                                ELSE "executed"]
                 /\ UNCHANGED result
            ELSE /\ result' = [result EXCEPT ![n] =
                                 IF r.kind = "Exception" THEN ErrorOf(n, r.text)
                                 ELSE [kind |-> "raise", outputs |-> <<>>,
                                       title |-> "", text |-> r.text]]
                 /\ task' = [task EXCEPT ![n] = "returning"]
                 /\ UNCHANGED outputs
  /\ UNCHANGED <<editVars, canvasVars, cacheVars, frameVars, inputs, completed,
                 snapshot, yielded, outVars, grouper_calls, cache_start>>

\* _execute_node_code, line 983: node.set_cache(inputs, result).
WorkerExecuteSetCache(n) ==
  /\ PoolAlive /\ task[n] = "computed"
  /\ last_inputs' = [last_inputs EXCEPT ![n] = SomeHash(_hash_inputs(inputs[n]))]
  /\ last_outputs' = [last_outputs EXCEPT ![n] = outputs[n]]
  /\ cache_valid' = [cache_valid EXCEPT ![n] = TRUE]
  /\ task' = [task EXCEPT ![n] = "executed"]
  /\ UNCHANGED <<editVars, canvasVars, frameVars, inputs, outputs, result, completed,
                 snapshot, yielded, outVars, histVars>>

WorkerRace == \E n \in NodeIds :
  \/ WorkerCollect(n) \/ WorkerExecuteCall(n) \/ WorkerExecuteSetCache(n)
  \/ WorkerStore(n) \/ WorkerFinish(n)

InitRace ==
  /\ \E k \in 1..RaceNodes :
       \E texts \in [1..k -> RaceScripts] :
         \E conns \in ConnLists(k, 1) :
           Built(k, texts, [i \in 1..k |-> 1], [i \in 1..k |-> 1], conns)
  /\ FrameIdle

NextRace ==
  \/ \E n \in NodeIds : on_mouse_pressed_right_running(n)
  \/ \E new_code \in RaceScripts : _on_code_editor_response_running(new_code)
  \/ on_run_clicked
  \/ execute_graph_validate
  \/ execute_graph_group
  \/ execute_graph_launch
  \/ WorkerRace
  \/ as_completed_call
  \/ \E n \in NodeIds : execute_graph_observe(n)
  \/ execute_graph_level_done
  \/ execute_graph_exit
  \/ finish

SpecRace == InitRace /\ [][NextRace]_vars

\* Graphs whose values are followed from node to node.  Fan-in: two sources
\* without inputs and with two output ports feed the two input ports of a
\* third node that has no script and so hands its inputs on.
InitFanIn ==
  \E texts \in [1..2 -> {S_Ret5, S_Ret7, S_Div0}] :
    \E conns \in ListsOver({1, 2} \X {0, 1} \X {3} \X {0, 1}, DataConns) :
      Built(3, texts @@ (3 :> S_Empty), <<0, 0, 2>>, <<2, 2, 1>>, conns)

\* A chain of two: A without inputs, B with one, A.out0 -> B.in0.
InitChain ==
  \E a \in {S_Ret10, S_Out10}, b \in {S_RetDouble, S_OutDouble} :
    Built(2, <<a, b>>, <<0, 1>>, <<1, 1>>, <<<<1, 0, 2, 0>>>>)

InitData == (InitFanIn \/ InitChain) /\ FrameIdle

SpecData == InitData /\ [][Next]_vars

\* ------------------------------------------------------------------ claims
\* The nodes reachable from n along one or more connections.
RECURSIVE Grow(_, _)
Grow(conns, S) ==
  LET T == S \cup {c[3] : c \in {x \in Range(conns) : x[1] \in S}}
  IN IF T = S THEN S ELSE Grow(conns, T)

Descendants(conns, n) == Grow(conns, {c[3] : c \in {x \in Range(conns) : x[1] = n}})

HasCycle(ns, conns) == \E n \in Range(ns) : n \in Descendants(conns, n)

Sources(conns, n) == {c[1] : c \in {x \in Range(conns) : x[3] = n}}

Pos(seq, x) == CHOOSE i \in 1..Len(seq) : seq[i] = x

\* The 0-based index of the level that holds n.
LevelIndex(n) == (CHOOSE i \in 1..Len(levels) : n \in Range(levels[i])) - 1

Started(n) == task[n] \notin {"none", "queued"}

\* The run is over: execute_graph has returned or an exception has left it.
RunOver == pc \in {"returned", "raised"}

\* C1: for an acyclic graph _topological_sort returns every node exactly once,
\* the source of every connection before its target.
C1_TopologicalOrder ==
  (pc \in {"grouping", "launch", "returned"} /\ nodes # <<>>
     /\ ~HasCycle(nodes, connections))
  => /\ ~execution_order.none
     /\ Len(execution_order.order) = Len(nodes)
     /\ \A n \in Range(nodes) :
          Cardinality({i \in 1..Len(execution_order.order) :
                         execution_order.order[i] = n}) = 1
     /\ \A c \in Range(connections) :
          Pos(execution_order.order, c[1]) < Pos(execution_order.order, c[3])

C1_Witness ==
  /\ pc = "grouping" /\ Len(nodes) = 3 /\ Len(connections) = 3
  /\ ~HasCycle(nodes, connections)
  /\ execution_order.order = <<3, 2, 1>>

\* C2: a graph with a cycle is refused: _topological_sort returns None, the run
\* returns False, _group_by_execution_level is not called, no task is
\* launched, no script evaluated, no cache entry changed.
C2_CycleRefused ==
  (HasCycle(nodes, connections) /\ pc \notin {"idle", "validating"})
  => /\ pc = "returned" /\ ret = "False"
     /\ execution_order.none
     /\ printed = <<[kind |-> "cycle", title |-> "", text |-> ""]>>
     /\ grouper_calls = 0
     /\ levels = <<>>
     /\ scripts_run = {}
     /\ \A n \in NodeIds : task[n] = "none"
     /\ <<cache_valid, last_inputs, last_outputs>> = cache_start

C2_Witness ==
  /\ pc = "returned" /\ ret = "False" /\ Len(nodes) = 3
  /\ connections = <<<<1, 0, 2, 0>>, <<2, 0, 1, 0>>>>
  /\ code[3] = S_Plot
  /\ execution_order.none

\* C3: the depth of a node is 0 exactly when no connection enters it, else one
\* more than the largest depth among its direct predecessors, and the node is
\* in levels[depth].
C3_DepthRecurrence ==
  pc = "launch" =>
    LET depth == Depth(nodes, connections) IN
    \A n \in Range(nodes) :
      LET P == Sources(connections, n) IN
      /\ (depth[n] = 0) <=> (P = {})
      /\ P # {} => depth[n] = 1 + Max({depth[p] : p \in P})
      /\ depth[n] < Len(levels)
      /\ n \in Range(levels[depth[n] + 1])

C3_Witness ==
  /\ pc = "launch" /\ Len(levels) = 3
  /\ \E n \in Range(nodes) :
       \E p, q \in Sources(connections, n) : LevelIndex(p) < LevelIndex(q)

\* C4: no connection joins two nodes of the same level, in either direction.
C4_LevelIndependent ==
  pc = "launch" =>
    \A i \in 1..Len(levels) :
      \A a, b \in Range(levels[i]) :
        \A c \in Range(connections) : ~(c[1] = a /\ c[3] = b)

C4_Witness ==
  /\ pc = "launch" /\ Len(levels) = 2
  /\ Len(levels[2]) = 2 /\ Len(connections) = 2

\* C5: a task of a later level is not even submitted before every task of the
\* earlier levels is finished; tasks of two levels are never alive together.
C5_LevelBarrier ==
  levels # <<>> =>
    \A a, b \in Range(nodes) :
      (LevelIndex(a) < LevelIndex(b) /\ task[b] # "none") => task[a] = "finished"

C5_Witness ==
  /\ level_idx = 1 /\ Len(levels) = 2 /\ Len(levels[1]) = 2
  /\ \E b \in Range(levels[2]) : task[b] = "collected"

\* C6: a node reachable from another lies in a strictly later level, and when
\* its inputs are collected the other's outputs are in the result store.
C6_OrderingGuarantee ==
  levels # <<>> =>
    \A a, b \in Range(nodes) :
      b \in Descendants(connections, a) =>
        /\ LevelIndex(a) < LevelIndex(b)
        /\ Started(b) => a \in DOMAIN node_results

C6_Witness ==
  /\ connections = <<<<1, 0, 2, 0>>, <<2, 0, 3, 0>>>>
  /\ task[3] = "collected"
  /\ inputs[3] = <<DictV("_plot")>>

\* The nodes whose task failed in this run, by an Exception the wrapper caught
\* ("error") or by an exception that left the wrapper ("raise").
Failed == {n \in Range(nodes) : result[n].kind \in {"error", "raise"}}

\* The first failed node of a sequence of nodes.
FirstFailed(seq) == seq[CHOOSE i \in 1..Len(seq) :
                          seq[i] \in Failed /\ \A j \in 1..(i - 1) : seq[j] \notin Failed]

\* C7: when the script of a node of level k fails, the run reports a failure
\* naming a failed node and returns False, and no node of a later level is
\* invoked.
C7_FirstFailureAbort ==
  \A n \in Failed \cap scripts_run :
    /\ \A m \in Range(nodes) : LevelIndex(m) > LevelIndex(n) => task[m] = "none"
    /\ RunOver =>
         /\ pc = "returned" /\ ret = "False"
         /\ \E i \in 1..Len(printed) :
              /\ printed[i].kind = "error"
              /\ printed[i].title \in {title[f] : f \in Failed}

\* C8 as claimed: in a level with a failed task every task of the level is
\* finished when the run is over, exactly one failure leaves the run, that of
\* the first failed task in completion order, and no output of the level is
\* delivered.
C8_FirstInCompletionOrder ==
  (RunOver /\ Failed # {}) =>
    /\ level_idx < Len(levels) /\ Failed \subseteq Range(Level)
    /\ \A n \in Range(Level) : task[n] = "finished"
    /\ yielded # <<>> /\ yielded[Len(yielded)] \in Failed
    /\ yielded[Len(yielded)] = FirstFailed(completed)
    /\ LET f == yielded[Len(yielded)] IN
         IF result[f].kind = "error"
           THEN pc = "returned" /\ ret = "False" /\ printed = <<result[f]>>
           ELSE pc = "raised" /\ printed = <<>>
    /\ \A i \in 1..Len(delivered) :
         delivered[i].label \notin {title[n] : n \in Range(Level)}

\* C8 as amended: the failure that leaves the run is that of the first failed
\* task handed over by as_completed.
C8_FirstObserved ==
  (RunOver /\ Failed # {}) =>
    /\ level_idx < Len(levels) /\ Failed \subseteq Range(Level)
    /\ \A n \in Range(Level) : task[n] = "finished"
    /\ \E i \in 1..Len(yielded) : yielded[i] \in Failed
    /\ LET f == FirstFailed(yielded) IN
         /\ f = yielded[Len(yielded)]
         /\ IF result[f].kind = "error"
              THEN pc = "returned" /\ ret = "False" /\ printed = <<result[f]>>
              ELSE pc = "raised" /\ printed = <<>>
    /\ \A i \in 1..Len(delivered) :
         delivered[i].label \notin {title[n] : n \in Range(Level)}

C8_Witness ==
  /\ pc = "returned" /\ ret = "False" /\ Len(Level) = 3
  /\ Cardinality(Failed) = 2
  /\ \E n \in Range(Level) : result[n].kind = "ok" /\ result[n].outputs = <<DictV("_plot")>>
  /\ FirstFailed(yielded) # FirstFailed(completed)
  /\ Len(yielded) = 2

\* C9: when a node of level k > 0 fails, nothing a node of an earlier level
\* produced is delivered to the output panel.
C9_EarlierLevelsDiscarded ==
  (RunOver /\ Failed # {} /\ level_idx > 0) =>
    \A i \in 1..Len(delivered) :
      delivered[i].label \notin
        {title[n] : n \in {m \in Range(nodes) : LevelIndex(m) < level_idx}}

\* C10: every failure of a task is caught and becomes a report carrying the
\* node's title and the error text; no exception leaves execute_graph.
C10_FailureNeverPropagates ==
  /\ pc # "raised"
  /\ \A n \in Range(nodes) :
       (task[n] \in {"returning", "finished"} /\ result[n].kind # "ok")
       => /\ result[n].kind = "error"
          /\ result[n].title = title[n]
          /\ result[n].text # ""

\* The values that reach input port p (0-based) of node n: one per connection
\* into that port whose source has a result with that output, in list order.
Contributions(n, p) ==
  LET into == SelectSeq(connections,
                LAMBDA c : /\ c[3] = n /\ c[4] = p
                           /\ c[1] \in DOMAIN node_results
                           /\ c[2] < Len(node_results[c[1]]))
  IN [i \in 1..Len(into) |-> node_results[into[i][1]][into[i][2] + 1]]

\* C11: each input port of a node gets None with no contributing connection,
\* the produced value itself with exactly one, and the list of the produced
\* values in connection-list order with two or more; a port's value is a
\* function of the connections into that port alone.
C11_FanIn ==
  \A n \in Range(nodes) :
    (task[n] \in {"collected", "executed"}) =>
      /\ Len(inputs[n]) = num_inputs[n]
      /\ \A p \in 0..(num_inputs[n] - 1) :
           LET vals == Contributions(n, p) IN
           inputs[n][p + 1] = IF Len(vals) = 0 THEN NoneV
                              ELSE IF Len(vals) = 1 THEN vals[1]
                              ELSE ListV(vals)

\* Port 0 of the third node is fed by 5 then 7 and port 1 by 5 alone.
C11_Witness ==
  /\ task[3] = "collected"
  /\ inputs[3] = <<ListV(<<IntV(5), IntV(7)>>), IntV(5)>>

\* The chain A.out0 -> B.in0 of two nodes, A without inputs and B with one.
IsChain ==
  /\ nodes = <<1, 2>> /\ connections = <<<<1, 0, 2, 0>>>>
  /\ num_inputs[1] = 0 /\ num_inputs[2] = 1
  /\ num_outputs[1] = 1 /\ num_outputs[2] = 1

\* The run of the chain gave the levels [[A], [B]], succeeded and stored (20,)
\* for B.
ChainResult ==
  /\ levels = <<<<1>>, <<2>>>>
  /\ ret = "True"
  /\ 2 \in DOMAIN node_results /\ node_results[2] = <<IntV(20)>>

\* C14 as claimed: with the scripts "outputs = (10,)" for A and
\* "outputs = (inputs[0] * 2,)" for B, a run of the chain that is over has
\* given the levels [[A], [B]], has succeeded and has stored (20,) for B.
C14_EndToEnd_Assign ==
  (IsChain /\ code[1] = S_Out10 /\ code[2] = S_OutDouble /\ RunOver) => ChainResult

\* C14: with the scripts "return (10,)" for A and "return (inputs[0] * 2,)"
\* for B (a script is the body of a function and hands its outputs back with
\* return), a run of the chain that is over has given the levels [[A], [B]],
\* has succeeded and has stored (20,) for B.
C14_EndToEnd_Return ==
  (IsChain /\ code[1] = S_Ret10 /\ code[2] = S_RetDouble /\ RunOver) => ChainResult

C14_Witness ==
  /\ IsChain /\ code[1] = S_Ret10 /\ code[2] = S_RetDouble
  /\ pc = "returned" /\ ChainResult

\* The script of a call record is code, not the empty or blank text of a
\* pass-through node.
HasScript(rec) == rec.code # "" /\ Strip(rec.code) # ""

SameEntry(n) ==
  /\ cache_valid'[n] = cache_valid[n]
  /\ last_inputs'[n] = last_inputs[n]
  /\ last_outputs'[n] = last_outputs[n]

\* C13: a step that gives a node a script text different from the current one
\* leaves its cache entry cleared, and the next call with the input tuple of
\* the call before is a miss that evaluates the new script; a step that is not
\* a call and leaves the script text as it is (an assignment of the same text
\* among them) leaves the cache entry as it is.
C13_InvalidateOnChange ==
  /\ [][\A n \in Range(nodes) :
          /\ code'[n] # code[n] =>
                /\ ~cache_valid'[n]
                /\ last_inputs'[n] = NoHash /\ last_outputs'[n] = <<>>
          /\ (code'[n] = code[n] /\ call_log'[n] = call_log[n]) => SameEntry(n)]_vars
  /\ [](\A n \in Range(nodes) :
          Len(call_log[n]) = 2 =>
            LET first == call_log[n][1]
                second == call_log[n][2]
            IN (first.reassigned /\ HasScript(second))
               => second.ran /\ ~second.hit)

\* A call with (3, 4) filled the cache, the script was changed, and the next
\* call with (3, 4) evaluated the new script.
C13_Witness ==
  /\ Len(call_log[1]) = 2
  /\ call_log[1][1].inputs = <<IntV(3), IntV(4)>>
  /\ call_log[1][2].inputs = <<IntV(3), IntV(4)>>
  /\ call_log[1][1].ran /\ call_log[1][1].kind = "ok" /\ call_log[1][1].reassigned
  /\ call_log[1][2].ran /\ call_log[1][2].code # call_log[1][1].code

\* C20: a step that changes the number of input or of output ports of a node
\* leaves the node's cache entry not valid.
C20_PortEditInvalidates ==
  [][\A n \in Range(nodes) :
       (num_inputs'[n] # num_inputs[n] \/ num_outputs'[n] # num_outputs[n])
         => ~cache_valid'[n]]_vars

\* Both endpoints of connection c are nodes of the graph.
EndpointsKnown(c) == c[1] \in Range(nodes) /\ c[3] \in Range(nodes)

\* Both port indices of connection c are within the port counts of its nodes.
PortsInBounds(c) == c[2] < num_outputs[c[1]] /\ c[4] < num_inputs[c[3]]

\* C15: an add-connection gesture never crashes and appends only connections
\* whose endpoints are nodes of the graph, whose port indices are within the
\* port counts of their nodes and that the list did not hold; in every other
\* case it leaves the connection list as it was.
C15_AddConnectionRejected ==
  [][last_op'.op = "_finish_connection" =>
       /\ last_op'.error = ""
       /\ \E k \in 0..Len(connections') :
            /\ Len(connections') = Len(connections) + k
            /\ \A i \in 1..Len(connections) : connections'[i] = connections[i]
            /\ \A i \in (Len(connections) + 1)..Len(connections') :
                 LET c == connections'[i] IN
                 /\ c[1] \in Range(nodes') /\ c[3] \in Range(nodes')
                 /\ c[2] < num_outputs'[c[1]] /\ c[4] < num_inputs'[c[3]]
                 /\ \A j \in 1..(i - 1) : connections'[j] # c]_vars

\* C16: the connection list never holds the same 4-tuple twice.
C16_NoDuplicateConnection ==
  \A i, j \in 1..Len(connections) : i # j => connections[i] # connections[j]

\* A release over an input port whose connection the list already held: not
\* every port under the pointer gave a new connection.
C16_Witness ==
  /\ last_op.op = "_finish_connection"
  /\ last_op.hits > last_op.added
  /\ connections # <<>>

\* C17: after a remove-node operation, by the Delete key on the focused node or
\* by the Delete item of the context menu, the node is not in the node list
\* and no connection has it as source or target, and the operation did not
\* crash.
C17_RemoveNodeCascades ==
  (last_op.op \in {"_delete_focused_node", "delete_context_node"} /\ last_op.node # 0)
    => /\ last_op.error = ""
       /\ last_op.node \notin Range(nodes)
       /\ \A c \in Range(connections) : c[1] # last_op.node /\ c[3] # last_op.node

\* C18: both endpoint nodes of every connection are in the node list.
C18_NoDanglingReference == \A c \in Range(connections) : EndpointsKnown(c)

\* C19: every connection's source port index is less than its source node's
\* count of output ports and its target port index less than its target
\* node's count of input ports.
C19_PortBounds == \A c \in Range(connections) : PortsInBounds(c)

\* The worker of node n is inside a `with results_lock:` block: it is reading
\* or writing node_results.
InBlock(n) == task[n] \in {"collecting", "storing"}

\* C21: node_results is read and written under results_lock alone: a worker
\* that is reading or writing it holds the lock, so no two workers are reading
\* or writing it at the same time; outside the workers it is touched only
\* while no task is alive.
C21_ResultStoreMutex ==
  /\ \A n \in NodeIds : InBlock(n) => results_lock = n
  /\ \A a, b \in NodeIds : (InBlock(a) /\ InBlock(b)) => a = b
  /\ pc \in {"grouping", "returned", "idle"} =>
       \A n \in NodeIds : task[n] \in {"none", "finished"}

\* One worker of a level is writing its result while another of the same level
\* waits for the lock to read, and a third to write.
C21_Witness ==
  \E a, b, c \in NodeIds :
    /\ task[a] = "storing" /\ results_lock = a
    /\ task[b] = "queued" /\ task[c] = "executed"

\* The nodes of the first k levels, level after level, each in list order.
RECURSIVE FirstLevels(_)
FirstLevels(k) == IF k = 0 THEN <<>> ELSE FirstLevels(k - 1) \o levels[k]

\* The input tuple of node n over the result store `results`, port by port
\* from the connection list.
RefInputs(n, results) ==
  [p \in 1..num_inputs[n] |->
     LET into == SelectSeq(connections,
                   LAMBDA c : /\ c[3] = n /\ c[4] = p - 1
                              /\ c[1] \in DOMAIN results
                              /\ c[2] < Len(results[c[1]]))
         vals == [i \in 1..Len(into) |-> results[into[i][1]][into[i][2] + 1]]
     IN IF Len(vals) = 0 THEN NoneV
        ELSE IF Len(vals) = 1 THEN vals[1] ELSE ListV(vals)]

\* What node n gives for the input tuple ins with the cache entry it had when
\* the run began: its outputs, or a failure.
RefOutputs(n, ins) ==
  IF code[n] = "" \/ Strip(code[n]) = "" THEN [ok |-> TRUE, outputs |-> ins]
  ELSE IF cache_start[1][n] /\ cache_start[2][n] = SomeHash(_hash_inputs(ins))
    THEN [ok |-> TRUE, outputs |-> cache_start[3][n]]
  ELSE LET r == RunScript(code[n], ins) IN
    IF r.kind # "ok" THEN [ok |-> FALSE, outputs |-> <<>>]
    ELSE [ok |-> TRUE,
          outputs |-> IF r.value.tag = "tuple" THEN r.value.items ELSE <<r.value>>]

\* The nodes of `order` run one after the other, each on the results of those
\* before it: the result store at the end, or a failure.
RECURSIVE RefRun(_, _)
RefRun(order, results) ==
  IF order = <<>> THEN [ok |-> TRUE, results |-> results]
  ELSE LET n == Head(order)
           r == RefOutputs(n, RefInputs(n, results))
       IN IF r.ok THEN RefRun(Tail(order), (n :> r.outputs) @@ results)
          ELSE [ok |-> FALSE, results |-> <<>>]

\* C22: whatever the order in which the workers of a level start, run and
\* finish, a run ends as the run of the nodes one after the other does: it
\* succeeds exactly when that one does, and then with the same result store;
\* and at each level barrier of a run the result store is the one the nodes of
\* the levels done give when run one after the other.
C22_SiblingIndependence ==
  /\ (RunOver /\ levels # <<>>) =>
       LET ref == RefRun(FirstLevels(Len(levels)), <<>>) IN
       /\ (ret = "True") <=> ref.ok
       /\ ret = "True" => node_results = ref.results
  /\ (pc = "launch" /\ level_idx >= 1) =>
       LET ref == RefRun(FirstLevels(level_idx), <<>>) IN
       ref.ok /\ node_results = ref.results

\* The barrier after a level of two nodes that finished in the order opposite
\* to that of the node list, both feeding input port 0 of the third node.
C22_Witness ==
  /\ pc = "launch" /\ level_idx = 1 /\ completed = <<2, 1>>
  /\ yielded = <<2, 1>>
  /\ <<1, 0, 3, 0>> \in Range(connections) /\ <<2, 0, 3, 0>> \in Range(connections)
  /\ node_results = (1 :> <<IntV(5)>>) @@ (2 :> <<IntV(7)>>)

\* C23: no step of a run, from the click on Run to the end of execute_graph
\* (success, cycle abort or node-failure abort), changes the node list, the
\* title, port counts or script of a node, or the connection list.
C23_RunLeavesGraph ==
  [][(pc # "idle" \/ pc' # "idle") =>
       /\ nodes' = nodes /\ connections' = connections
       /\ title' = title /\ num_inputs' = num_inputs
       /\ num_outputs' = num_outputs /\ code' = code]_vars

\* A run of two levels has succeeded and has filled a cache entry.
C23_Witness ==
  /\ pc = "returned" /\ ret = "True" /\ Len(levels) = 2
  /\ \E n \in Range(nodes) : cache_valid[n] /\ ~cache_start[1][n]

\* The newest record of the call log of node n.
Newest(log, n) == log[n][Len(log[n])]

\* C24: a call of a node whose script text is empty or blank returns its input
\* tuple as its output tuple, and evaluates nothing.
C24_PassThrough ==
  \A n \in Range(nodes) :
    \A i \in 1..Len(call_log[n]) :
      LET rec == call_log[n][i] IN
      (rec.code = "" \/ rec.code = S_Blank) =>
        /\ rec.kind = "ok" /\ rec.outputs = rec.inputs
        /\ ~rec.ran /\ ~rec.hit

\* A node with a blank script was called with a list and with None.
C24_Witness ==
  /\ code[1] = S_Blank /\ Len(call_log[1]) = 2
  /\ call_log[1][1].inputs = <<ListV(<<IntV(3), IntV(4)>>)>>
  /\ call_log[1][1].outputs = <<ListV(<<IntV(3), IntV(4)>>)>>
  /\ call_log[1][2].outputs = <<NoneV>>

\* C25 as claimed: the value a script returned is the output tuple when it is
\* a sequence (a tuple or a list), and is otherwise wrapped into a tuple of
\* one element.
C25_Normalise_Sequence ==
  \A n \in Range(nodes) :
    \A i \in 1..Len(call_log[n]) :
      LET rec == call_log[n][i]
          v == RunScript(rec.code, rec.inputs).value
      IN (rec.ran /\ rec.kind = "ok") =>
           rec.outputs = IF v.tag \in {"tuple", "list"} THEN v.items ELSE <<v>>

\* C25: the value a script returned is the output tuple when it is a tuple;
\* any other value, a list among them, is wrapped into a tuple of one element.
C25_Normalise_Tuple ==
  \A n \in Range(nodes) :
    \A i \in 1..Len(call_log[n]) :
      LET rec == call_log[n][i]
          v == RunScript(rec.code, rec.inputs).value
      IN (rec.ran /\ rec.kind = "ok") =>
           rec.outputs = IF v.tag = "tuple" THEN v.items ELSE <<v>>

\* "return inputs[0]" was called with a list and with an integer: each came
\* back wrapped.
C25_Witness ==
  /\ code[1] = S_RetFirst /\ Len(call_log[1]) = 2
  /\ call_log[1][1].ran /\ call_log[1][1].inputs = <<ListV(<<IntV(3), IntV(4)>>)>>
  /\ call_log[1][1].outputs = <<ListV(<<IntV(3), IntV(4)>>)>>
  /\ call_log[1][2].ran /\ call_log[1][2].outputs = <<IntV(3)>>

\* C27: a call in which the script raised, when compiled or when evaluated,
\* leaves the cache entry of the node as it was; and a call changes the entry
\* only when it evaluated the script and the script returned.
C27_FailureKeepsEntry ==
  [][\A n \in Range(nodes) :
       call_log'[n] # call_log[n] =>
         LET rec == Newest(call_log', n) IN
         /\ rec.kind # "ok" => SameEntry(n)
         /\ ~SameEntry(n) => (rec.ran /\ rec.kind = "ok")]_vars

\* "return (inputs[0] * 2,)" was called with 3, which filled the entry, then
\* with None, which raised: the entry is still that of the call with 3.
C27_Witness ==
  /\ code[1] = S_RetDouble /\ Len(call_log[1]) = 2
  /\ call_log[1][1].inputs = <<IntV(3)>> /\ call_log[1][1].kind = "ok"
  /\ call_log[1][2].inputs = <<NoneV>> /\ call_log[1][2].kind = "Exception"
  /\ cache_valid[1] /\ last_outputs[1] = <<IntV(6)>>
  /\ last_inputs[1] = SomeHash(_hash_inputs(<<IntV(3)>>))

\* C28: a node holds one cache entry, that of the last input tuple its script
\* was evaluated with.  After calls that returned with inputs X, then Y of
\* another fingerprint, then X again, the third call is a miss and evaluates
\* the script; a call is a hit only when the entry is valid and its
\* fingerprint that of the inputs; and a call that evaluated the script and
\* returned leaves the entry holding the fingerprint of its inputs.
C28_SingleEntry ==
  /\ [](\A n \in Range(nodes) :
          Len(call_log[n]) = 3 =>
            LET first == call_log[n][1]
                second == call_log[n][2]
                third == call_log[n][3]
            IN (/\ HasScript(first) /\ first.kind = "ok" /\ second.kind = "ok"
                /\ _hash_inputs(second.inputs) # _hash_inputs(first.inputs)
                /\ third.inputs = first.inputs)
               => third.ran /\ ~third.hit)
  /\ [][\A n \in Range(nodes) :
          call_log'[n] # call_log[n] =>
            LET rec == Newest(call_log', n) IN
            /\ rec.hit => /\ cache_valid[n]
                          /\ last_inputs[n] = SomeHash(_hash_inputs(rec.inputs))
                          /\ rec.outputs = last_outputs[n]
            /\ (rec.ran /\ rec.kind = "ok") =>
                 /\ cache_valid'[n]
                 /\ last_inputs'[n] = SomeHash(_hash_inputs(rec.inputs))
                 /\ last_outputs'[n] = rec.outputs]_vars

\* "return (inputs[0] * 2,)" was called with 3, with 4 and with 3 again, and
\* evaluated each time.
C28_Witness ==
  /\ code[1] = S_RetDouble /\ Len(call_log[1]) = 3
  /\ call_log[1][1].inputs = <<IntV(3)>> /\ call_log[1][1].ran
  /\ call_log[1][2].inputs = <<IntV(4)>> /\ call_log[1][2].ran
  /\ call_log[1][3].inputs = <<IntV(3)>> /\ call_log[1][3].ran
  /\ ~call_log[1][3].hit /\ call_log[1][3].outputs = <<IntV(6)>>

\* The values _collect_node_inputs gathers for input port p (0-based) of node
\* n over the result store as it is.
Aggregated(n, p) ==
  CollectLoop(connections, 1, n, node_results,
              [q \in 1..num_inputs[n] |-> <<>>]).per_port[p + 1]

\* The connections whose target is input port p of node n.
Landing(n, p) == SelectSeq(connections, LAMBDA c : c[3] = n /\ c[4] = p)

\* Those of them whose source has stored an output tuple that has an entry at
\* the connection's output port.
Supplied(n, p) ==
  SelectSeq(Landing(n, p),
            LAMBDA c : c[1] \in DOMAIN node_results /\ c[2] < Len(node_results[c[1]]))

\* The value of a port for the values gathered for it.
PortValue(vals) ==
  IF Len(vals) = 0 THEN NoneV ELSE IF Len(vals) = 1 THEN vals[1] ELSE ListV(vals)

\* C29 as claimed: when a node has collected its inputs, the values gathered
\* for each of its input ports are as many as the connections whose target is
\* that port, whatever the output tuples of the sources.
C29_OneValuePerConnection ==
  \A n \in Range(nodes) :
    (task[n] \in {"collected", "executed"}) =>
      \A p \in 0..(num_inputs[n] - 1) :
        /\ Len(Aggregated(n, p)) = Len(Landing(n, p))
        /\ inputs[n][p + 1] = PortValue(Aggregated(n, p))

\* C29: when a node has collected its inputs, the values gathered for each of
\* its input ports are as many as the connections into that port whose source
\* has stored an output tuple with an entry at the connection's output port;
\* a connection from an output port at or beyond the length of the source's
\* output tuple gives no value.
C29_OneValuePerSuppliedConnection ==
  \A n \in Range(nodes) :
    (task[n] \in {"collected", "executed"}) =>
      \A p \in 0..(num_inputs[n] - 1) :
        /\ Len(Aggregated(n, p)) = Len(Supplied(n, p))
        /\ inputs[n][p + 1] = PortValue(Aggregated(n, p))

\* Two connections give input port 0 of the third node the list [5, 7]; the
\* connection from output port 1 of the first node, whose script returns one
\* output, gives input port 1 nothing.
C29_Witness ==
  /\ task[3] = "collected"
  /\ connections = <<<<1, 0, 3, 0>>, <<2, 0, 3, 0>>, <<1, 1, 3, 1>>>>
  /\ node_results[1] = <<IntV(5)>> /\ node_results[2] = <<IntV(7)>>
  /\ inputs[3] = <<ListV(<<IntV(5), IntV(7)>>), NoneV>>

\* The state of the run: Idle, Validating (the checks and the grouping),
\* Running (from the first level to the end of the loop over the levels),
\* Completed (returned True), Aborted (returned False), and Raised when an
\* exception has left execute_graph.
Phase ==
  IF pc = "idle" THEN "Idle"
  ELSE IF pc \in {"validating", "grouping"} THEN "Validating"
  ELSE IF pc \in {"launch", "submitted", "waiting", "exiting"} THEN "Running"
  ELSE IF pc = "raised" THEN "Raised"
  ELSE IF ret = "True" THEN "Completed" ELSE "Aborted"

\* The failure of a node of the level being run has been taken from its future.
FailureObserved == \E i \in 1..Len(yielded) : result[yielded[i]].kind # "ok"

\* The steps of the run state machine.
RunStep ==
  LET from == Phase
      to == Phase'
  IN
  /\ from = "Idle" => to \in {"Idle", "Validating"}
  /\ from = "Validating" =>
       \/ to = "Validating"
       \/ to = "Aborted" /\ (nodes = <<>> \/ HasCycle(nodes, connections))
       \/ to = "Running" /\ level_idx' = 0 /\ ~HasCycle(nodes, connections)
  /\ from = "Running" =>
       \/ to = "Running" /\ level_idx' \in {level_idx, level_idx + 1}
       \/ to = "Completed" /\ level_idx = Len(levels)
       \/ to = "Aborted" /\ FailureObserved
  /\ from \in {"Completed", "Aborted"} => to \in {from, "Idle"}

\* C26: a run goes from Idle to Validating, from there to Aborted (a cycle; or
\* no node at all) or to Running, through the levels in increasing order, to
\* Completed after the last level or to Aborted once a failure of a node has
\* been observed, and to nowhere else; in a Completed run every node has been
\* invoked exactly once and the result store holds an output tuple for every
\* node and for nothing else.
C26_RunStateMachine ==
  /\ [][RunStep]_vars
  /\ [](Phase = "Completed" =>
          /\ \A n \in Range(nodes) : Len(call_log[n]) = 1
          /\ DOMAIN node_results = Range(nodes))

\* Every script of the graph comes back to execute_node_wrapper, with a value
\* or with an Exception.
AllReturn == \A n \in Range(nodes) : code[n] # S_Exit

\* C30: the run of an acyclic graph whose scripts all return has its levels
\* computed, the relaxation being at its fixed point, and execute_graph
\* returns, True or False; the run of a cyclic graph returns False without
\* having invoked a node.
C30_Termination ==
  /\ (pc = "validating" /\ ~HasCycle(nodes, connections) /\ AllReturn)
       ~> (pc = "returned")
  /\ (pc = "validating" /\ HasCycle(nodes, connections))
       ~> (pc = "returned" /\ ret = "False" /\ levels = <<>>)
  /\ [](pc = "launch" =>
          ~RelaxPass(nodes, connections, 1, Depth(nodes, connections), FALSE).changed)

\* A run over three levels has returned True.
C30_Witness ==
  /\ pc = "returned" /\ ret = "True" /\ Len(levels) = 3 /\ level_idx = 3
  /\ AllReturn

\* The calls of one kind queued for the output panel under the title of node n.
Deliveries(n, call) ==
  Cardinality({i \in DOMAIN delivered :
                 delivered[i] = [call |-> call, label |-> title[n]]})

\* The entries of node n's output tuple that are a dict with the key given.
Entries(n, key) ==
  Cardinality({p \in DOMAIN node_results[n] : node_results[n][p].tag = key})

\* The entries of all output tuples that are a dict with a reserved key.
RECURSIVE ReservedEntries(_)
ReservedEntries(ns) ==
  IF ns = <<>> THEN 0
  ELSE Entries(Head(ns), "_plot") + Entries(Head(ns), "_table")
         + Entries(Head(ns), "_data") + ReservedEntries(Tail(ns))

\* C31: when a run has returned True, every entry of a node's output tuple
\* that is a dict with a reserved key has been handed to the output panel
\* exactly once, under the title of that node, also when the tuple came from
\* the cache; nothing else has been handed to the panel.
C31_SpecialOutputsOnce ==
  (pc = "returned" /\ ret = "True") =>
     /\ \A n \in Range(nodes) :
          /\ Deliveries(n, "add_plot") = Entries(n, "_plot")
          /\ Deliveries(n, "add_table") = Entries(n, "_table")
          /\ Deliveries(n, "add_data") = Entries(n, "_data")
     /\ Len(delivered) = ReservedEntries(nodes)

\* A run has returned True in which a plot came from the cache and a node
\* without script passed a plot on, and another node produced no plot.
C31_Witness ==
  /\ pc = "returned" /\ ret = "True"
  /\ \E n \in Range(nodes) :
       /\ code[n] = S_Plot /\ n \notin scripts_run
       /\ Deliveries(n, "add_plot") = 1
  /\ \E n \in Range(nodes) :
       /\ code[n] = S_Empty /\ Entries(n, "_plot") = 0
       /\ Deliveries(n, "add_plot") = 0

\* The canvas holds the graph of the file: the nodes of the file in their
\* order, with its titles, port counts and scripts, and its connections.
HoldsGraphOf(file) ==
  /\ nodes = [i \in 1..Len(file.nodes) |-> file.nodes[i].id]
  /\ \A i \in 1..Len(file.nodes) :
       LET d == file.nodes[i] IN
         /\ title[d.id] = d.title /\ code[d.id] = d.code
         /\ num_inputs[d.id] = d.num_inputs /\ num_outputs[d.id] = d.num_outputs
  /\ connections = [i \in 1..Len(file.connections) |->
                      <<file.connections[i].source_node_id,
                        file.connections[i].source_port,
                        file.connections[i].target_node_id,
                        file.connections[i].target_port>>]

\* C32: after a saved file has been opened the canvas holds the graph that was
\* saved: nodes of the same identifiers, titles, port counts and scripts, and
\* the same connections.
C32_RoundTrip ==
  last_op.op = "_on_open_dialog_response" => HoldsGraphOf(disk)

\* The graph has a connection from a node to itself.
HasSelfLoop == \E c \in Range(connections) : c[1] = c[3]

\* C33: a connection dragged from an output port of a node to an input port of
\* the same node is accepted by _finish_connection; a run of a graph with such
\* a connection is refused as cyclic: it returns False with the cycle
\* reported, no level computed and no node invoked.
C33_SelfLoop ==
  /\ [][\A place \in Places, port \in 0..1 :
          (/\ on_mouse_released_port(place, port)
           /\ connection_start_node \in Range(InputPortAt(place, port)))
          => <<connection_start_node, connection_start_port,
               connection_start_node, port>> \in Range(connections')]_vars
  /\ []((HasSelfLoop /\ pc \notin {"idle", "validating"}) =>
          /\ pc = "returned" /\ ret = "False"
          /\ \E i \in DOMAIN printed : printed[i].kind = "cycle"
          /\ levels = <<>> /\ scripts_run = {}
          /\ \A n \in NodeIds : call_log[n] = <<>> /\ task[n] = "none")

\* A node was connected to itself by a drag, and the run of the graph was
\* refused.
C33_Witness ==
  /\ HasSelfLoop /\ Len(nodes) = 2
  /\ pc = "returned" /\ ret = "False"

\* The output tuple the script text produces; the scripts of RaceScripts do not
\* read their inputs.
ProducedBy(text) ==
  LET r == RunScript(text, <<>>)
  IN IF r.kind # "ok" THEN <<>>
     ELSE IF r.value.tag = "tuple" THEN r.value.items ELSE <<r.value>>

\* C34: a run's workers and the code editor of the UI thread interleaved in
\* any way, the outputs of a valid cache entry are those the node's present
\* script text produces: what the script replaced had computed is never
\* stored as valid.
C34_CacheCoherent ==
  \A n \in Range(nodes) : cache_valid[n] => last_outputs[n] = ProducedBy(code[n])

\* The places of node n in the levels.
PlacesInLevels(n) ==
  {<<l, i>> \in (DOMAIN levels) \X (1..Len(nodes)) :
     i <= Len(levels[l]) /\ levels[l][i] = n}

\* C35: the levels _group_by_execution_level returns for the graph being run
\* (not empty, without cycle) hold every node exactly once and nothing else,
\* and none of them is empty; no pool is created for a level without node.
C35_LevelsPartition ==
  /\ pc = "launch" => levels # <<>>
  /\ levels # <<>> =>
       /\ \A n \in Range(nodes) : Cardinality(PlacesInLevels(n)) = 1
       /\ \A l \in DOMAIN levels :
            levels[l] # <<>> /\ Range(levels[l]) \subseteq Range(nodes)
  /\ \A i \in DOMAIN printed : printed[i].text # "max_workers"

\* The pools of two levels were created, one of them for two nodes.
C35_Witness ==
  /\ Len(levels) = 2 /\ level_idx = 1 /\ pc = "submitted"
  /\ Len(levels[1]) = 2 /\ Len(levels[2]) = 1

\* C36: a run is started only while no run is in progress, the Run button
\* being insensitive from on_run_clicked until finish has run; and after
\* every run, whether it succeeded, was refused for a cycle or was stopped by
\* the failure of a node, the button is sensitive again at some time.
C36_RunButton ==
  /\ [][pc' = "validating" => pc = "idle"]_vars
  /\ (pc # "idle") ~> (pc = "idle")

\* C37: the release that ends the drag of a connection appends at most one
\* connection: one when the pointer is over an input port and the list does
\* not hold the connection yet, none when it holds it or when the pointer is
\* over no input port.
C37_AtMostOneConnection ==
  last_op.op = "_finish_connection" =>
    /\ last_op.added <= 1
    /\ last_op.hits = 0 => last_op.added = 0

\* C38: after any sequence of operations of the editor selected_connection is
\* None or one of the connections of the list: the removal of connections by
\* a click on an input port or with a node leaves no selected connection
\* behind that the list does not hold (and that the Delete key would act on
\* in place of the focused node).
C38_SelectedConnectionKnown ==
  selected_connection = <<>> \/ selected_connection \in Range(connections)

\* C39: when execute_graph has been left, by whichever way (no node, a cycle,
\* the failure of a node, an exception, success), sys.stdout is the stream
\* that was installed before the call: the capture buffer does not stay
\* installed.
C39_StdoutRestored ==
  pc \in {"idle", "returned", "raised"} => stdout = "real"

====
